---- MODULE Spec2Model ----
(***************************************************************************)
(* A model of the store connection monitor: the repository (app/repository *)
(* .py), the monitor loop and its cycle (app/monitor.py), the address      *)
(* lookup (app/store_ip_list.py) and the ping aggregate (app/utils.py).    *)
(*                                                                         *)
(* Python strings whose content is converted (trimmed, zero padded) are    *)
(* sequences of one-character strings: "7" is <<"7">>.                     *)
(***************************************************************************)
EXTENDS Integers, Sequences, FiniteSets, TLC

VARIABLES
    stores,        \* Repo._stores: insertion-ordered dict, a sequence of Store records keyed by .number
    status,        \* Repo._status: number -> BOOLEAN
    last_change,   \* Repo._last_change: number -> timestamp
    now,           \* the wall clock datetime.now() reads, in seconds
    pc,            \* StoreMonitor thread: where _loop / _run_cycle stands
    stop,          \* StoreMonitor._stop is set
    snap_status,   \* _run_cycle's local `status`: the copy snapshot() returned
    ordered,       \* _run_cycle's local `ordered`
    futs,          \* the future of each index of `ordered`
    i,             \* index of the result loop of _run_cycle (from 1)
    sink,          \* history: the on_ping calls of this cycle, in call order
    cur,           \* history: what handling the current endpoint has done
    snap_stores,   \* _run_cycle's local `stores`: the copy snapshot() returned
    completed,     \* history: the indexes of this cycle's futures in completion order
    after_stop,    \* history: the cycles begun since stop(), and whether stop() came before start()
    lock,          \* Repo._lock: the thread holding it, "" when free
    call,          \* per thread: the Repo method it is inside, statement by statement
    ping_pc,       \* ping_with_stats under test: "call" before, "return" after
    ping_in,       \* its inputs: what the ping subprocess does (and the echo samples behind it)
    ping_out,      \* its result <<online, avg_latency_ms, success_count>>
    heap,          \* the Store objects alive: object id -> field values
    refs,          \* Repo._stores by object identity: a sequence of [number, obj]
    held,          \* what a caller of Repo.get / Repo.snapshot was handed, and its last step
    store_data,    \* main.py store_data: insertion-ordered, a sequence of [store, ip]
    status_dict,   \* main.py status_dict, one per run compared
    last_change_dict, \* main.py last_change_dict, one per run compared
    enable_notifications, \* main.py StoreMonitorApp.enable_notifications, one per run
    main_pc,       \* main.py monitor_loop thread, one per run: "loop" or "dead"
    ui             \* AppUI: where the handler running stands, and the list last handed to save

repoVars == <<stores, status, last_change, now>>
monVars == <<pc, stop, snap_status, ordered, futs, i, sink, cur, snap_stores, completed, after_stop>>
pingVars == <<ping_pc, ping_in, ping_out>>
lockVars == <<lock, call>>
aliasVars == <<heap, refs, held>>
mainVars == <<store_data, status_dict, last_change_dict, enable_notifications, main_pc>>
uiVars == <<ui>>
vars == <<stores, status, last_change, now,
          pc, stop, snap_status, ordered, futs, i, sink, cur, snap_stores, completed, after_stop,
          ping_pc, ping_in, ping_out, lock, call,
          heap, refs, held,
          store_data, status_dict, last_change_dict, enable_notifications, main_pc, ui>>

----------------------------------------------------------------------------
(* Bounds of the model *)

MaxClock == 1      \* the clock runs over 0..MaxClock
MaxFields == 2     \* fields "key = value" in one ping output
MaxBegun == 2      \* the cycles begun since stop() are counted up to MaxBegun

----------------------------------------------------------------------------
(* Python values *)

\* None where a str is expected: no string of one-character strings equals it
None == <<"None">>
\* None where an int is expected (avg_latency_ms: int | None)
NoneInt == -1

Truthy(s) == s # None /\ s # <<>>

Whitespace == {" ", "\t", "\n"}

RECURSIVE lstrip(_)
lstrip(s) == IF s # <<>> /\ Head(s) \in Whitespace THEN lstrip(Tail(s)) ELSE s

RECURSIVE rstrip(_)
rstrip(s) ==
    IF s # <<>> /\ s[Len(s)] \in Whitespace
    THEN rstrip(SubSeq(s, 1, Len(s) - 1))
    ELSE s

\* str.strip()
strip(s) == rstrip(lstrip(s))

RECURSIVE Zeros(_)
Zeros(n) == IF n <= 0 THEN <<>> ELSE <<"0">> \o Zeros(n - 1)

\* str.zfill(width): zeros on the left, after a leading sign
zfill(s, width) ==
    IF s # <<>> /\ Head(s) \in {"+", "-"}
    THEN <<Head(s)>> \o Zeros(width - Len(s)) \o Tail(s)
    ELSE Zeros(width - Len(s)) \o s

\* dict[k] = v and dict.pop(k, None) on a dict whose order is never read
DictSet(d, k, v) == [x \in DOMAIN d \cup {k} |-> IF x = k THEN v ELSE d[x]]
DictPop(d, k) == [x \in DOMAIN d \ {k} |-> d[x]]
EmptyDict == [x \in {} |-> x]

----------------------------------------------------------------------------
(* app/config.py *)

PING_COUNT == 4
PING_TIMEOUT_MS == 1500
PING_QUORUM == 1

----------------------------------------------------------------------------
(* app/store_ip_list.py *)

\* the table load_store_ip_list() builds: keys are zero padded to 4 digits
store_ip_map == (<<"0", "0", "0", "7">> :> <<"1", "0", ".", "9">>)

get_ip_for_store(number) ==
    IF number = <<>> THEN None
    ELSE LET key == zfill(strip(number), 4)
         IN  IF key \in DOMAIN store_ip_map THEN store_ip_map[key] ELSE None

----------------------------------------------------------------------------
(* app/utils.py: ping_with_stats *)

\* The output of the ping process is a sequence of fields "key = value unit";
\* re.search(key\s*=\s*(\d+)unit) finds the first field with that key and unit.
Field(k, v, u) == [key |-> k, val |-> v, unit |-> u]

RECURSIVE re_search(_, _, _)
re_search(stdout, k, units) ==
    IF stdout = <<>> THEN NoneInt
    ELSE IF Head(stdout).key = k /\ Head(stdout).unit \in units
         THEN Head(stdout).val
         ELSE re_search(Tail(stdout), k, units)

Units == {"", "ms"}

\* as ping_with_stats_on, online only above the quorum
ping_with_stats_on_above(stdout, raised, quorum) ==
    IF raised # "" THEN <<FALSE, NoneInt, 0>>
    ELSE LET received_m == re_search(stdout, "Received", Units)
             success_count == IF received_m # NoneInt THEN received_m ELSE 0
             avg_m == re_search(stdout, "Average", {"ms"})
         IN  <<success_count > quorum,
               IF success_count > 0 /\ avg_m # NoneInt THEN avg_m ELSE NoneInt,
               success_count>>

\* as ping_with_stats_on, the except clause not catching OSError: the exception
\* leaves the function and no triple is returned
ping_with_stats_on_propagates(stdout, raised, quorum) ==
    IF raised = "OSError" THEN <<>>
    ELSE IF raised # "" THEN <<FALSE, NoneInt, 0>>
    ELSE LET received_m == re_search(stdout, "Received", Units)
             success_count == IF received_m # NoneInt THEN received_m ELSE 0
             avg_m == re_search(stdout, "Average", {"ms"})
         IN  <<success_count >= quorum,
               IF success_count > 0 /\ avg_m # NoneInt THEN avg_m ELSE NoneInt,
               success_count>>

\* raised: what subprocess.run raises ("" when it returns); quorum: PING_QUORUM
ping_with_stats_on(stdout, raised, quorum) ==
    IF raised # "" THEN <<FALSE, NoneInt, 0>>
    ELSE LET received_m == re_search(stdout, "Received", Units)
             success_count == IF received_m # NoneInt THEN received_m ELSE 0
             online == success_count >= quorum
             avg_m == re_search(stdout, "Average", {"ms"})
             avg_latency_ms ==
                 IF success_count > 0 /\ avg_m # NoneInt THEN avg_m ELSE NoneInt
         IN  <<online, avg_latency_ms, success_count>>

----------------------------------------------------------------------------
(* app/models.py, app/repository.py *)

Store(number, ip, isp, helpdesk_ticket) ==
    [number |-> number, ip |-> ip, isp |-> isp, helpdesk_ticket |-> helpdesk_ticket]

Keys(st) == {st[j].number : j \in 1..Len(st)}

\* as StoresSet, every upsert appending an entry
StoresSet_append(st, store) == Append(st, store)

\* self._stores[store.number] = store: an existing key keeps its place
StoresSet(st, store) ==
    IF store.number \in Keys(st)
    THEN [j \in 1..Len(st) |-> IF st[j].number = store.number THEN store ELSE st[j]]
    ELSE Append(st, store)

\* self._stores.pop(number, None)
StoresPop(st, number) == SelectSeq(st, LAMBDA s : s.number # number)

\* self._stores.get(number): NoStore stands for None
StoresGet(st, number) ==
    IF number \in Keys(st)
    THEN st[CHOOSE j \in 1..Len(st) : st[j].number = number]
    ELSE Store(<<>>, <<>>, "", "")

\* the statements of Repo.set_status; prev is (prev_known, prev): None is unknown
StatusKnown(st, number) == number \in DOMAIN st
StatusGet(st, number) == IF number \in DOMAIN st THEN st[number] ELSE FALSE
set_status_status(st, number, online) == DictSet(st, number, online)
\* as set_status_last_change, stamping also an endpoint first seen online
set_status_last_change_first_online(lc, prev_known, prev, number, online, t) ==
    IF (prev_known /\ prev # online) \/ (~prev_known /\ online)
    THEN DictSet(lc, number, t)
    ELSE lc

set_status_last_change(lc, prev_known, prev, number, online, t) ==
    IF prev_known /\ prev # online THEN DictSet(lc, number, t) ELSE lc

\* as CanAcquire, entering whoever holds the lock
CanAcquire_unlocked(lk) == TRUE

\* with self._lock: the thread enters once the lock is free
CanAcquire(lk) == lk = ""

----------------------------------------------------------------------------
(* app/monitor.py: StoreMonitor._run_cycle, the values it computes *)

\* as effective_ip, the table's address taking precedence over the explicit one
effective_ip_table_first(store) ==
    LET looked == get_ip_for_store(store.number)
    IN  IF Truthy(looked) THEN looked ELSE strip(store.ip)

effective_ip(store) ==
    LET explicit == strip(store.ip)
    IN  IF explicit # <<>> THEN explicit ELSE get_ip_for_store(store.number)

\* the display placeholder, a single dash character (U+2014 in the source)
Placeholder == <<"-">>

OrderedEntry(store) ==
    LET eff == effective_ip(store)
    IN  [number |-> store.number,
         store |-> store,
         effective_ip |-> IF Truthy(eff) THEN eff ELSE <<>>,
         display_ip |-> IF Truthy(eff) THEN eff ELSE Placeholder]

\* as BuildOrdered, walking the stores last to first
BuildOrdered_reversed(st) == [j \in 1..Len(st) |-> OrderedEntry(st[Len(st) + 1 - j])]

\* for number, store in stores.items(): ordered.append(...)
BuildOrdered(st) == [j \in 1..Len(st) |-> OrderedEntry(st[j])]

SyntheticVerdict == <<FALSE, NoneInt, 0>>

\* the future of one index: "none" (no task submitted), "pending", "done", "failed"
NoFuture == [state |-> "none", ip |-> <<>>, res |-> SyntheticVerdict]
Submitted(ip) == [state |-> "pending", ip |-> ip, res |-> SyntheticVerdict]

\* the indexes whose task has been submitted and has not ended
Unfinished(fs) == {j \in 1..Len(fs) : fs[j].state \in {"pending", "running"}}

\* as SubmitTasks, a task for every entry whether or not it has an address
SubmitTasks_all(ord) == [j \in 1..Len(ord) |-> Submitted(ord[j].effective_ip)]

SubmitTasks(ord) ==
    [j \in 1..Len(ord) |->
        IF ord[j].effective_ip # <<>> THEN Submitted(ord[j].effective_ip) ELSE NoFuture]

\* as ResultOf, a task that failed read as an online verdict
ResultOf_failed_online(fs, j) ==
    IF fs[j].state = "done" THEN fs[j].res
    ELSE IF fs[j].state = "failed" THEN <<TRUE, NoneInt, 0>> ELSE SyntheticVerdict

\* online, avg_latency, success_count of index j
ResultOf(fs, j) == IF fs[j].state = "done" THEN fs[j].res ELSE SyntheticVerdict

\* whether the loop body calls repo.set_status, and whether notify follows
CallsSetStatus(snap, number, online) ==
    number \notin DOMAIN snap \/ snap[number] # online
CallsNotify(snap, number, online) ==
    number \in DOMAIN snap /\ snap[number] # online

\* history of one endpoint's handling: the repository's record when the verdict
\* was applied (known, prev, lc_before), what set_status left (stored, lc), the
\* clock then (at), and the callbacks made
NoCur ==
    [number |-> <<>>, online |-> FALSE, known |-> FALSE, prev |-> FALSE,
     set |-> FALSE, stored |-> FALSE, lc_before |-> -1, lc |-> -1, at |-> 0,
     refreshed |-> 0, notified |-> 0, notify_raised |-> FALSE, sink_raised |-> FALSE,
     done |-> FALSE]

StampOf(lc, number) == IF number \in DOMAIN lc THEN lc[number] ELSE -1

----------------------------------------------------------------------------
(* The aggregate alone: every ping output of up to MaxFields fields *)

Fields ==
    {Field("Sent", PING_COUNT, "")}
    \cup {Field("Received", n, "") : n \in 0..PING_COUNT}
    \cup {Field("Average", 12, u) : u \in Units}

RECURSIVE SeqsUpTo(_, _)
SeqsUpTo(S, n) ==
    IF n = 0 THEN {<<>>}
    ELSE LET shorter == SeqsUpTo(S, n - 1)
         IN  shorter \cup {Append(q, x) : q \in shorter, x \in S}

Stdouts == SeqsUpTo(Fields, MaxFields)
Raises == {"", "TimeoutExpired", "OSError"}
Quorums == 1..(PING_COUNT + 1)

\* stop() not called
NoStop == [begun |-> 0, before_start |-> FALSE]

RepoIdle ==
    /\ stores = <<>>
    /\ status = EmptyDict
    /\ last_change = EmptyDict
    /\ now = 0

MonIdle ==
    /\ pc = "init"
    /\ stop = FALSE
    /\ snap_status = EmptyDict
    /\ ordered = <<>>
    /\ futs = <<>>
    /\ i = 1
    /\ sink = <<>>
    /\ cur = NoCur
    /\ snap_stores = <<>>
    /\ completed = <<>>
    /\ after_stop = NoStop

Triple(st, ss, lc) == [stores |-> st, status |-> ss, last_change |-> lc]
NoStore == Store(<<>>, <<>>, "", "")
IdleCall ==
    [op |-> "", store |-> NoStore, number |-> <<>>, online |-> FALSE, at |-> "idle",
     prev_known |-> FALSE, prev |-> FALSE, got |-> NoStore,
     ret |-> Triple(<<>>, EmptyDict, EmptyDict),
     before |-> Triple(<<>>, EmptyDict, EmptyDict), torn |-> FALSE]
Threads == {"ui", "mon"}

LockIdle ==
    /\ lock = ""
    /\ call = [t \in Threads |-> IdleCall]

PingIdle ==
    /\ ping_pc = "return"
    /\ ping_in = [stdout |-> <<>>, raised |-> "", quorum |-> PING_QUORUM, samples |-> <<>>]
    /\ ping_out = <<FALSE, NoneInt, 0>>

\* no Store object made yet, nothing handed out
NoObj == 0
NoHeld ==
    [op |-> "", store |-> NoObj, stores |-> <<>>, status |-> EmptyDict,
     view_changed |-> FALSE, repo_changed |-> FALSE]

AliasIdle ==
    /\ heap = EmptyDict
    /\ refs = <<>>
    /\ held = NoHeld

\* the two runs of main.py that are compared
Runs == {1, 2}

MainIdle ==
    /\ store_data = <<>>
    /\ status_dict = [r \in Runs |-> EmptyDict]
    /\ last_change_dict = [r \in Runs |-> EmptyDict]
    /\ enable_notifications = [r \in Runs |-> TRUE]
    /\ main_pc = [r \in Runs |-> "loop"]

\* no handler running, nothing saved since the list was loaded
\* self.sort_state = {"column": None, "order": None}; None is "None" here
NoSort == [column |-> "None", order |-> "None"]

\* self._last_probe_success = {} is cache; rows are the colour tags of the rows
\* painted last, each with the verdicts on_ping had been given for its store
NoUi ==
    [at |-> "idle", op |-> "", typed |-> <<>>, saved |-> <<>>,
     sort_state |-> NoSort, clicked |-> "None",
     cache |-> EmptyDict, seen |-> EmptyDict, rows |-> EmptyDict]

UiIdle == ui = NoUi

PingInit ==
    /\ ping_pc = "call"
    /\ ping_in \in [stdout : Stdouts, raised : Raises, quorum : Quorums, samples : {<<>>}]
    /\ ping_out = <<FALSE, NoneInt, 0>>
    /\ RepoIdle
    /\ MonIdle
    /\ LockIdle
    /\ AliasIdle
    /\ MainIdle
    /\ UiIdle

PingReturn ==
    /\ ping_pc = "call"
    /\ ping_pc' = "return"
    /\ ping_out' = ping_with_stats_on(ping_in.stdout, ping_in.raised, ping_in.quorum)
    /\ UNCHANGED <<ping_in, repoVars, monVars, lockVars, aliasVars, mainVars, uiVars>>

PingNext == PingReturn

SpecPing == PingInit /\ [][PingNext]_vars

\* C4: the verdict ping_with_stats returns is online exactly when its success
\* count reaches the quorum threshold, and a success count of 0 is never online.
C4_OnlineIffQuorum ==
    ping_pc = "return" =>
        /\ ping_out[1] = (ping_out[3] >= ping_in.quorum)
        /\ (ping_out[3] = 0 => ~ping_out[1])

\* some probes succeeded, fewer than the quorum: offline
C4_Witness ==
    /\ ping_pc = "return"
    /\ ping_in.quorum = 4
    /\ ping_out[3] = 3
    /\ ~ping_out[1]

\* C5: in every result of ping_with_stats the average latency is present
\* exactly when the success count is above 0.
C5_AvgIffSuccess ==
    ping_pc = "return" => ((ping_out[2] # NoneInt) <=> (ping_out[3] > 0))

----------------------------------------------------------------------------
(* The monitor thread beside the presentation thread *)

N7 == <<"7">>
N99 == <<"0", "0", "9", "9">>

\* the Store values the presentation layer and the loader hand to upsert
StoreValues ==
    {Store(N7, <<>>, "", ""),
     Store(N7, <<" ", "1", ".", "2", " ">>, "GTT", "HD-1"),
     Store(N99, <<" ">>, "", "")}

Numbers == {s.number : s \in StoreValues}

\* what the ping process of one probe may print, and what running it may raise
CycleStdouts ==
    {<<Field("Sent", PING_COUNT, ""), Field("Received", PING_COUNT, ""),
       Field("Average", 12, "ms")>>,
     <<Field("Sent", PING_COUNT, ""), Field("Received", 0, "")>>}
CycleRaises == {"", "TimeoutExpired"}

Init ==
    /\ RepoIdle
    /\ MonIdle
    /\ PingIdle
    /\ LockIdle
    /\ AliasIdle
    /\ MainIdle
    /\ UiIdle

\* Repo.upsert
Upsert(store) ==
    /\ stores' = StoresSet(stores, store)
    /\ UNCHANGED <<status, last_change, now, monVars, pingVars, lockVars, aliasVars, mainVars, uiVars>>

\* Repo.remove
Remove(number) ==
    /\ stores' = StoresPop(stores, number)
    /\ status' = DictPop(status, number)
    /\ last_change' = DictPop(last_change, number)
    /\ UNCHANGED <<now, monVars, pingVars, lockVars, aliasVars, mainVars, uiVars>>

\* Repo.clear_all
ClearAll ==
    /\ stores' = <<>>
    /\ status' = EmptyDict
    /\ last_change' = EmptyDict
    /\ UNCHANGED <<now, monVars, pingVars, lockVars, aliasVars, mainVars, uiVars>>

\* a second passes
Tick ==
    /\ now < MaxClock
    /\ now' = now + 1
    /\ UNCHANGED <<stores, status, last_change, monVars, pingVars, lockVars, aliasVars, mainVars, uiVars>>

\* StoreMonitor.start
Start ==
    /\ pc = "init"
    /\ pc' = "loop"
    /\ UNCHANGED <<repoVars, stop, snap_status, ordered, futs, i, sink, cur, snap_stores, completed, after_stop, pingVars, lockVars, aliasVars, mainVars, uiVars>>

\* StoreMonitor.stop
Stop ==
    /\ ~stop
    /\ stop' = TRUE
    /\ after_stop' = [begun |-> 0, before_start |-> pc = "init"]
    /\ UNCHANGED <<repoVars, pc, snap_status, ordered, futs, i, sink, cur, snap_stores, completed, pingVars, lockVars, aliasVars, mainVars, uiVars>>

\* as LoopTest, the loop going on whether or not _stop is set
LoopTest_ignores_stop ==
    /\ pc = "loop"
    /\ pc' = "cycle"
    /\ UNCHANGED <<repoVars, stop, snap_status, ordered, futs, i, sink, cur, snap_stores, completed, after_stop, pingVars, lockVars, aliasVars, mainVars, uiVars>>

\* _loop: while not self._stop.is_set()
LoopTest ==
    /\ pc = "loop"
    /\ pc' = IF stop THEN "stopped" ELSE "cycle"
    /\ UNCHANGED <<repoVars, stop, snap_status, ordered, futs, i, sink, cur, snap_stores, completed, after_stop, pingVars, lockVars, aliasVars, mainVars, uiVars>>

\* _run_cycle: snapshot, build `ordered`, submit one task per resolved address
CycleBegin ==
    /\ pc = "cycle"
    /\ snap_stores' = stores
    /\ snap_status' = status
    /\ ordered' = BuildOrdered(snap_stores')
    /\ futs' = SubmitTasks(ordered')
    /\ i' = 1
    /\ sink' = <<>>
    /\ cur' = NoCur
    /\ completed' = <<>>
    /\ after_stop' = IF stop /\ after_stop.begun < MaxBegun
                     THEN [after_stop EXCEPT !.begun = @ + 1] ELSE after_stop
    /\ pc' = "gather"
    /\ UNCHANGED <<repoVars, stop, pingVars, lockVars, aliasVars, mainVars, uiVars>>

\* a worker thread returns from ping_with_stats
ProbeReturns(j) ==
    /\ pc = "gather"
    /\ futs[j].state = "pending"
    /\ \E out \in CycleStdouts, raised \in CycleRaises :
          futs' = [futs EXCEPT ![j].state = "done",
                               ![j].res = ping_with_stats_on(out, raised, PING_QUORUM)]
    /\ completed' = Append(completed, j)
    /\ UNCHANGED <<repoVars, pc, stop, snap_status, ordered, i, sink, cur, snap_stores, after_stop, pingVars, lockVars, aliasVars, mainVars, uiVars>>

\* a task ends with an exception or cancelled: gather hands back the exception
ProbeFails(j) ==
    /\ pc = "gather"
    /\ futs[j].state = "pending"
    /\ futs' = [futs EXCEPT ![j].state = "failed"]
    /\ completed' = Append(completed, j)
    /\ UNCHANGED <<repoVars, pc, stop, snap_status, ordered, i, sink, cur, snap_stores, after_stop, pingVars, lockVars, aliasVars, mainVars, uiVars>>

\* as LoopAt, the loop ending at the number of endpoints the repository holds now
LoopAt_live(n) == IF n <= Len(ordered) /\ n <= Len(stores) THEN "on_ping" ELSE "sleep"

\* where the result loop goes with index n
LoopAt(n) == IF n <= Len(ordered) THEN "on_ping" ELSE "sleep"

\* as Gathered, the result loop entered without awaiting the futures
Gathered_any ==
    /\ pc = "gather"
    /\ i' = 1
    /\ pc' = LoopAt(1)
    /\ UNCHANGED <<repoVars, stop, snap_status, ordered, futs, sink, cur, snap_stores, completed, after_stop, pingVars, lockVars, aliasVars, mainVars, uiVars>>

\* await asyncio.gather(...) returns once every future is done
Gathered ==
    /\ pc = "gather"
    /\ Unfinished(futs) = {}
    /\ i' = 1
    /\ pc' = LoopAt(1)
    /\ UNCHANGED <<repoVars, stop, snap_status, ordered, futs, sink, cur, snap_stores, completed, after_stop, pingVars, lockVars, aliasVars, mainVars, uiVars>>

\* as OnPing, the sink called only for a verdict the snapshot's status differs from
OnPing_changed_only ==
    /\ pc = "on_ping"
    /\ LET res == ResultOf(futs, i)
           entry == [number |-> ordered[i].number, ip |-> ordered[i].display_ip,
                     online |-> res[1], latency_ms |-> res[2], success_count |-> res[3]]
       IN  /\ sink' = IF CallsSetStatus(snap_status, ordered[i].number, res[1])
                      THEN Append(sink, entry) ELSE sink
           /\ cur' = [NoCur EXCEPT !.number = ordered[i].number, !.online = res[1]]
    /\ pc' = "set"
    /\ UNCHANGED <<repoVars, stop, snap_status, ordered, futs, i, snap_stores, completed, after_stop, pingVars, lockVars, aliasVars, mainVars, uiVars>>

\* the result of index i is read and on_ping is called; what on_ping raises is dropped
OnPing ==
    /\ pc = "on_ping"
    /\ LET res == ResultOf(futs, i)
       IN  /\ sink' = Append(sink, [number |-> ordered[i].number,
                                    ip |-> ordered[i].display_ip,
                                    online |-> res[1],
                                    latency_ms |-> res[2],
                                    success_count |-> res[3]])
           /\ cur' = [NoCur EXCEPT !.number = ordered[i].number, !.online = res[1]]
    /\ pc' = "set"
    /\ UNCHANGED <<repoVars, stop, snap_status, ordered, futs, i, snap_stores, completed, after_stop, pingVars, lockVars, aliasVars, mainVars, uiVars>>

\* prev = status.get(number), and repo.set_status when prev is None or differs
ApplyStatus ==
    /\ pc = "set"
    /\ LET number == ordered[i].number
           online == ResultOf(futs, i)[1]
           calls == CallsSetStatus(snap_status, number, online)
       IN  /\ status' = IF calls THEN set_status_status(status, number, online)
                        ELSE status
           /\ last_change' =
                 IF calls
                 THEN set_status_last_change(last_change, StatusKnown(status, number),
                                             StatusGet(status, number), number, online, now)
                 ELSE last_change
           /\ cur' = [cur EXCEPT
                        !.known = StatusKnown(status, number),
                        !.prev = StatusGet(status, number),
                        !.set = calls,
                        !.stored = number \in DOMAIN status' /\ status'[number] = online,
                        !.lc_before = StampOf(last_change, number),
                        !.lc = StampOf(last_change', number),
                        !.at = now,
                        !.done = ~calls]
           /\ pc' = IF calls THEN "refresh" ELSE LoopAt(i + 1)
           /\ i' = IF calls THEN i ELSE i + 1
    /\ UNCHANGED <<stores, now, stop, snap_status, ordered, futs, sink, snap_stores, completed, after_stop, pingVars, lockVars, aliasVars, mainVars, uiVars>>

\* self.on_any_change() returns
Refresh ==
    /\ pc = "refresh"
    /\ LET notifies == CallsNotify(snap_status, ordered[i].number, ResultOf(futs, i)[1])
       IN  /\ cur' = [cur EXCEPT !.refreshed = @ + 1, !.done = ~notifies]
           /\ pc' = IF notifies THEN "notify" ELSE LoopAt(i + 1)
           /\ i' = IF notifies THEN i ELSE i + 1
    /\ UNCHANGED <<repoVars, stop, snap_status, ordered, futs, sink, snap_stores, completed, after_stop, pingVars, lockVars, aliasVars, mainVars, uiVars>>

\* as RefreshRaises, the exception leaving _run_cycle and _loop
RefreshRaises_propagates ==
    /\ pc = "refresh"
    /\ cur' = [cur EXCEPT !.done = TRUE]
    /\ pc' = "stopped"
    /\ UNCHANGED <<repoVars, stop, snap_status, ordered, futs, i, sink, snap_stores, completed, after_stop, pingVars, lockVars, aliasVars, mainVars, uiVars>>

\* self.on_any_change() raises: except Exception: pass ends this endpoint
RefreshRaises ==
    /\ pc = "refresh"
    /\ cur' = [cur EXCEPT !.done = TRUE]
    /\ pc' = LoopAt(i + 1)
    /\ i' = i + 1
    /\ UNCHANGED <<repoVars, stop, snap_status, ordered, futs, sink, snap_stores, completed, after_stop, pingVars, lockVars, aliasVars, mainVars, uiVars>>

\* self.notify(number, online) returns
Notify ==
    /\ pc = "notify"
    /\ cur' = [cur EXCEPT !.notified = @ + 1, !.done = TRUE]
    /\ pc' = LoopAt(i + 1)
    /\ i' = i + 1
    /\ UNCHANGED <<repoVars, stop, snap_status, ordered, futs, sink, snap_stores, completed, after_stop, pingVars, lockVars, aliasVars, mainVars, uiVars>>

\* as NotifyRaises, the status update of the endpoint undone
NotifyRaises_rollback ==
    /\ pc = "notify"
    /\ cur' = [cur EXCEPT !.notified = @ + 1, !.notify_raised = TRUE, !.done = TRUE]
    /\ status' = DictPop(status, ordered[i].number)
    /\ last_change' = DictPop(last_change, ordered[i].number)
    /\ pc' = LoopAt(i + 1)
    /\ i' = i + 1
    /\ UNCHANGED <<stores, now, stop, snap_status, ordered, futs, sink, snap_stores, completed, after_stop, pingVars, lockVars, aliasVars, mainVars, uiVars>>

\* self.notify(number, online) raises: except Exception: pass
NotifyRaises ==
    /\ pc = "notify"
    /\ cur' = [cur EXCEPT !.notified = @ + 1, !.notify_raised = TRUE, !.done = TRUE]
    /\ pc' = LoopAt(i + 1)
    /\ i' = i + 1
    /\ UNCHANGED <<repoVars, stop, snap_status, ordered, futs, sink, snap_stores, completed, after_stop, pingVars, lockVars, aliasVars, mainVars, uiVars>>

\* time.sleep(PING_INTERVAL_SEC) returns
Sleep ==
    /\ pc = "sleep"
    /\ pc' = "loop"
    /\ UNCHANGED <<repoVars, stop, snap_status, ordered, futs, i, sink, cur, snap_stores, completed, after_stop, pingVars, lockVars, aliasVars, mainVars, uiVars>>

Next ==
    \/ \E s \in StoreValues : Upsert(s)
    \/ \E n \in Numbers : Remove(n)
    \/ ClearAll
    \/ Tick
    \/ Start
    \/ Stop
    \/ LoopTest
    \/ CycleBegin
    \/ \E j \in 1..Len(futs) : ProbeReturns(j)
    \/ \E j \in 1..Len(futs) : ProbeFails(j)
    \/ Gathered
    \/ OnPing
    \/ ApplyStatus
    \/ Refresh
    \/ RefreshRaises
    \/ Notify
    \/ NotifyRaises
    \/ Sleep

Spec == Init /\ [][Next]_vars

\* the steps of the monitor thread: a started thread keeps running, every probe
\* ends (each ping has a timeout) and time.sleep returns
MonitorStep ==
    \/ LoopTest
    \/ CycleBegin
    \/ \E j \in 1..Len(futs) : ProbeReturns(j)
    \/ \E j \in 1..Len(futs) : ProbeFails(j)
    \/ Gathered
    \/ OnPing
    \/ ApplyStatus
    \/ Refresh
    \/ RefreshRaises
    \/ Notify
    \/ NotifyRaises
    \/ Sleep

LiveNext ==
    \/ \E s \in StoreValues : Upsert(s)
    \/ \E n \in Numbers : Remove(n)
    \/ Start
    \/ Stop
    \/ MonitorStep

SpecLive == Init /\ [][LiveNext]_vars /\ WF_vars(MonitorStep)

----------------------------------------------------------------------------
(* One monitor over three endpoints with an address each, loaded at startup *)

N12 == <<"1", "2">>
StoreA == Store(N7, <<>>, "", "")
StoreB == Store(N12, <<"3">>, "", "")
StoreC == Store(N99, <<"4">>, "", "")

OrderInit ==
    /\ stores = <<StoreA, StoreB, StoreC>>
    /\ status = EmptyDict
    /\ last_change = EmptyDict
    /\ now = 0
    /\ MonIdle
    /\ PingIdle
    /\ LockIdle
    /\ AliasIdle
    /\ MainIdle
    /\ UiIdle

OrderNext ==
    \/ Remove(N12)
    \/ Start
    \/ Stop
    \/ LoopTest
    \/ CycleBegin
    \/ \E j \in 1..Len(futs) : ProbeReturns(j)
    \/ \E j \in 1..Len(futs) : ProbeFails(j)
    \/ Gathered
    \/ OnPing
    \/ ApplyStatus
    \/ Refresh
    \/ RefreshRaises
    \/ Notify
    \/ NotifyRaises
    \/ Sleep

SpecOrder == OrderInit /\ [][OrderNext]_vars

----------------------------------------------------------------------------
(* The repository's methods statement by statement, under Repo._lock: the     *)
(* presentation thread "ui" and the monitor thread "mon" call them at will    *)

RepoNow == Triple(stores, status, last_change)

FirstStatement(op) ==
    CASE op = "upsert" -> "l45"
      [] op = "get" -> "l55"
      [] op = "remove" -> "l66"
      [] op = "clear_all" -> "l78"
      [] op = "set_status" -> "l93"
      [] op = "snapshot" -> "l107_stores"

\* thread u has popped the endpoint(s) and not yet all of the derived records
MidRemove(u) == call[u].op = "remove" /\ call[u].at \in {"l67", "l68"}
MidClear(u) == call[u].op = "clear_all" /\ call[u].at \in {"l79", "l80"}

\* a copy of dict d made by t now shows a record whose endpoint another thread
\* has already popped in a remove or clear_all it has not finished
SeesPartial(t, d) ==
    \E u \in Threads \ {t} :
        \/ MidRemove(u) /\ call[u].number \in DOMAIN d
        \/ MidClear(u) /\ DOMAIN d # {}

CallUpsert(s) ==
    /\ call["ui"].at = "idle"
    /\ call' = [call EXCEPT !["ui"] = [IdleCall EXCEPT !.op = "upsert", !.store = s,
                                                      !.at = "enter"]]
    /\ UNCHANGED <<repoVars, monVars, pingVars, lock, aliasVars, mainVars, uiVars>>

CallGet(n) ==
    /\ call["ui"].at = "idle"
    /\ call' = [call EXCEPT !["ui"] = [IdleCall EXCEPT !.op = "get", !.number = n,
                                                      !.at = "enter"]]
    /\ UNCHANGED <<repoVars, monVars, pingVars, lock, aliasVars, mainVars, uiVars>>

CallRemove(n) ==
    /\ call["ui"].at = "idle"
    /\ call' = [call EXCEPT !["ui"] = [IdleCall EXCEPT !.op = "remove", !.number = n,
                                                      !.at = "enter"]]
    /\ UNCHANGED <<repoVars, monVars, pingVars, lock, aliasVars, mainVars, uiVars>>

CallClearAll ==
    /\ call["ui"].at = "idle"
    /\ call' = [call EXCEPT !["ui"] = [IdleCall EXCEPT !.op = "clear_all", !.at = "enter"]]
    /\ UNCHANGED <<repoVars, monVars, pingVars, lock, aliasVars, mainVars, uiVars>>

CallSetStatus(n, v) ==
    /\ call["mon"].at = "idle"
    /\ call' = [call EXCEPT !["mon"] = [IdleCall EXCEPT !.op = "set_status", !.number = n,
                                                       !.online = v, !.at = "enter"]]
    /\ UNCHANGED <<repoVars, monVars, pingVars, lock, aliasVars, mainVars, uiVars>>

CallSnapshot(t) ==
    /\ call[t].at = "idle"
    /\ call' = [call EXCEPT ![t] = [IdleCall EXCEPT !.op = "snapshot", !.at = "enter"]]
    /\ UNCHANGED <<repoVars, monVars, pingVars, lock, aliasVars, mainVars, uiVars>>

\* with self._lock: __enter__
Acquire(t) ==
    /\ call[t].at = "enter"
    /\ CanAcquire(lock)
    /\ lock' = t
    /\ call' = [call EXCEPT ![t].at = FirstStatement(call[t].op), ![t].before = RepoNow]
    /\ UNCHANGED <<repoVars, monVars, pingVars, aliasVars, mainVars, uiVars>>

\* with self._lock: __exit__, and the method returns
Release(t) ==
    /\ call[t].at = "exit"
    /\ lock' = ""
    /\ call' = [call EXCEPT ![t] = IdleCall]
    /\ UNCHANGED <<repoVars, monVars, pingVars, aliasVars, mainVars, uiVars>>

L45(t) ==
    /\ call[t].at = "l45"
    /\ stores' = StoresSet(stores, call[t].store)
    /\ call' = [call EXCEPT ![t].at = "exit"]
    /\ UNCHANGED <<status, last_change, now, monVars, pingVars, lock, aliasVars, mainVars, uiVars>>

L55(t) ==
    /\ call[t].at = "l55"
    /\ call' = [call EXCEPT ![t].got = StoresGet(stores, call[t].number), ![t].at = "exit"]
    /\ UNCHANGED <<repoVars, monVars, pingVars, lock, aliasVars, mainVars, uiVars>>

L66(t) ==
    /\ call[t].at = "l66"
    /\ stores' = StoresPop(stores, call[t].number)
    /\ call' = [call EXCEPT ![t].at = "l67"]
    /\ UNCHANGED <<status, last_change, now, monVars, pingVars, lock, aliasVars, mainVars, uiVars>>

\* as L67, every status record dropped with the endpoint's
L67_all(t) ==
    /\ call[t].at = "l67"
    /\ status' = EmptyDict
    /\ call' = [call EXCEPT ![t].at = "l68"]
    /\ UNCHANGED <<stores, last_change, now, monVars, pingVars, lock, aliasVars, mainVars, uiVars>>

\* self._status.pop(number, None)
L67(t) ==
    /\ call[t].at = "l67"
    /\ status' = DictPop(status, call[t].number)
    /\ call' = [call EXCEPT ![t].at = "l68"]
    /\ UNCHANGED <<stores, last_change, now, monVars, pingVars, lock, aliasVars, mainVars, uiVars>>

\* as L68, the removed endpoint keeping its last-change record
L68_keeps(t) ==
    /\ call[t].at = "l68"
    /\ call' = [call EXCEPT ![t].at = "exit"]
    /\ UNCHANGED <<repoVars, monVars, pingVars, lock, aliasVars, mainVars, uiVars>>

\* self._last_change.pop(number, None)
L68(t) ==
    /\ call[t].at = "l68"
    /\ last_change' = DictPop(last_change, call[t].number)
    /\ call' = [call EXCEPT ![t].at = "exit"]
    /\ UNCHANGED <<stores, status, now, monVars, pingVars, lock, aliasVars, mainVars, uiVars>>

L78(t) ==
    /\ call[t].at = "l78"
    /\ stores' = <<>>
    /\ call' = [call EXCEPT ![t].at = "l79"]
    /\ UNCHANGED <<status, last_change, now, monVars, pingVars, lock, aliasVars, mainVars, uiVars>>

L79(t) ==
    /\ call[t].at = "l79"
    /\ status' = EmptyDict
    /\ call' = [call EXCEPT ![t].at = "l80"]
    /\ UNCHANGED <<stores, last_change, now, monVars, pingVars, lock, aliasVars, mainVars, uiVars>>

L80(t) ==
    /\ call[t].at = "l80"
    /\ last_change' = EmptyDict
    /\ call' = [call EXCEPT ![t].at = "exit"]
    /\ UNCHANGED <<stores, status, now, monVars, pingVars, lock, aliasVars, mainVars, uiVars>>

L93(t) ==
    /\ call[t].at = "l93"
    /\ call' = [call EXCEPT ![t].prev_known = StatusKnown(status, call[t].number),
                            ![t].prev = StatusGet(status, call[t].number),
                            ![t].at = "l94"]
    /\ UNCHANGED <<repoVars, monVars, pingVars, lock, aliasVars, mainVars, uiVars>>

L94(t) ==
    /\ call[t].at = "l94"
    /\ status' = set_status_status(status, call[t].number, call[t].online)
    /\ call' = [call EXCEPT ![t].at = "l95"]
    /\ UNCHANGED <<stores, last_change, now, monVars, pingVars, lock, aliasVars, mainVars, uiVars>>

L95(t) ==
    /\ call[t].at = "l95"
    /\ last_change' = set_status_last_change(last_change, call[t].prev_known, call[t].prev,
                                             call[t].number, call[t].online, now)
    /\ call' = [call EXCEPT ![t].at = "exit"]
    /\ UNCHANGED <<stores, status, now, monVars, pingVars, lock, aliasVars, mainVars, uiVars>>

\* return dict(self._stores), dict(self._status), dict(self._last_change)
L107Stores(t) ==
    /\ call[t].at = "l107_stores"
    /\ call' = [call EXCEPT ![t].ret.stores = stores, ![t].at = "l107_status"]
    /\ UNCHANGED <<repoVars, monVars, pingVars, lock, aliasVars, mainVars, uiVars>>

L107Status(t) ==
    /\ call[t].at = "l107_status"
    /\ call' = [call EXCEPT ![t].ret.status = status,
                            ![t].torn = @ \/ SeesPartial(t, status),
                            ![t].at = "l107_last_change"]
    /\ UNCHANGED <<repoVars, monVars, pingVars, lock, aliasVars, mainVars, uiVars>>

L107LastChange(t) ==
    /\ call[t].at = "l107_last_change"
    /\ call' = [call EXCEPT ![t].ret.last_change = last_change,
                            ![t].torn = @ \/ SeesPartial(t, last_change),
                            ![t].at = "exit"]
    /\ UNCHANGED <<repoVars, monVars, pingVars, lock, aliasVars, mainVars, uiVars>>

LockNext ==
    \/ \E s \in StoreValues : CallUpsert(s)
    \/ \E n \in Numbers : CallGet(n)
    \/ \E n \in Numbers : CallRemove(n)
    \/ CallClearAll
    \/ \E n \in Numbers, v \in BOOLEAN : CallSetStatus(n, v)
    \/ \E t \in Threads : CallSnapshot(t)
    \/ \E t \in Threads : Acquire(t)
    \/ \E t \in Threads : Release(t)
    \/ \E t \in Threads : L45(t)
    \/ \E t \in Threads : L55(t)
    \/ \E t \in Threads : L66(t)
    \/ \E t \in Threads : L67(t)
    \/ \E t \in Threads : L68(t)
    \/ \E t \in Threads : L78(t)
    \/ \E t \in Threads : L79(t)
    \/ \E t \in Threads : L80(t)
    \/ \E t \in Threads : L93(t)
    \/ \E t \in Threads : L94(t)
    \/ \E t \in Threads : L95(t)
    \/ \E t \in Threads : L107Stores(t)
    \/ \E t \in Threads : L107Status(t)
    \/ \E t \in Threads : L107LastChange(t)
    \/ Tick

SpecLock == Init /\ [][LockNext]_vars

----------------------------------------------------------------------------
(* What the specification says of an address, stated without the code's helpers *)

IsBlank(s) == \A k \in 1..Len(s) : s[k] \in {" ", "\t", "\n"}

Trimmed(s) ==
    LET ks == {k \in 1..Len(s) : s[k] \notin {" ", "\t", "\n"}}
    IN  IF ks = {} THEN <<>>
        ELSE SubSeq(s, CHOOSE a \in ks : \A k \in ks : a <= k,
                       CHOOSE b \in ks : \A k \in ks : b >= k)

FourDigits(id) ==
    [k \in 1..(IF Len(id) >= 4 THEN 0 ELSE 4 - Len(id)) |-> "0"] \o id

\* the lookup table's address for an id, <<>> when it has none
TableEntry(id) ==
    LET key == FourDigits(Trimmed(id))
    IN  IF id # <<>> /\ key \in DOMAIN store_ip_map THEN store_ip_map[key] ELSE <<>>

\* the address to probe, <<>> when unresolved
ExpectedAddress(store) ==
    IF ~IsBlank(store.ip) THEN Trimmed(store.ip) ELSE TableEntry(store.number)

C2_FlipStampsAndNotifiesOnce ==
    cur.done =>
        /\ (cur.known /\ cur.prev # cur.online) =>
              (cur.set /\ cur.lc = cur.at /\ cur.notified = 1)
        /\ (cur.known /\ cur.prev = cur.online) =>
              (cur.notified = 0 /\ cur.lc = cur.lc_before)

\* C3: notify is never called for an endpoint whose status the repository did
\* not know when its verdict was applied.
C3_NoNotifyWhenUnknown ==
    cur.notified > 0 => cur.known

\* C7: an endpoint of the snapshot with a blank explicit address and no table
\* entry gets no probe, is reported to the sink as offline with no latency, no
\* success and the placeholder as address, and the status applied is offline.
C7_UnresolvedSynthetic ==
    \A j \in 1..Len(snap_stores) :
        (IsBlank(snap_stores[j].ip) /\ TableEntry(snap_stores[j].number) = <<>>) =>
            /\ futs[j].state = "none"
            /\ j <= Len(sink) =>
                  sink[j] = [number |-> snap_stores[j].number, ip |-> <<"-">>,
                             online |-> FALSE, latency_ms |-> -1, success_count |-> 0]
            /\ (cur.number = snap_stores[j].number /\ cur.set) =>
                  (cur.stored /\ ~cur.online)

C7_Witness ==
    /\ pc = "sleep"
    /\ cur.number = N99
    /\ cur.set
    /\ \E j \in 1..Len(sink) : sink[j].number = N99 /\ sink[j].ip = <<"-">>

\* C8: the address a cycle probes for an endpoint is its trimmed explicit
\* address when that is not blank, else the table's entry for its id padded to
\* four digits, and there is no probe when neither exists.
C8_ProbedAddress ==
    \A j \in 1..Len(snap_stores) :
        LET e == ExpectedAddress(snap_stores[j])
        IN  IF e = <<>> THEN futs[j].state = "none"
            ELSE futs[j].state # "none" /\ futs[j].ip = e

\* an explicit address is probed, trimmed, though the table has one for the id
C8_Witness ==
    \E j \in 1..Len(snap_stores) :
        /\ snap_stores[j].ip = <<" ", "1", ".", "2", " ">>
        /\ TableEntry(snap_stores[j].number) # <<>>
        /\ futs[j].state = "done"
        /\ futs[j].ip = <<"1", ".", "2">>

\* C6: within a cycle the sink is called, and the repository updated, in the
\* order of the cycle's snapshot whatever order the probes complete in; every
\* endpoint is reported with the result of its own probe, and all of them are
\* by the end of the cycle.
C6_SnapshotOrder ==
    /\ Len(sink) <= Len(snap_stores)
    /\ \A k \in 1..Len(sink) :
          /\ sink[k].number = snap_stores[k].number
          /\ sink[k].online = (futs[k].state = "done" /\ futs[k].res[1])
          /\ sink[k].success_count = (IF futs[k].state = "done" THEN futs[k].res[3] ELSE 0)
    /\ cur.set => (Len(sink) >= 1 /\ cur.number = snap_stores[Len(sink)].number)
    /\ pc = "sleep" => Len(sink) = Len(snap_stores)

\* A, B, C with B's probe the last to end, in a timeout
C6_Witness ==
    /\ pc = "sleep"
    /\ completed = <<1, 3, 2>>
    /\ futs[2].state = "done" /\ ~futs[2].res[1]
    /\ Len(sink) = 3
    /\ sink[1].number = N7 /\ sink[1].online
    /\ sink[2].number = N12 /\ ~sink[2].online
    /\ sink[3].number = N99 /\ sink[3].online

Range(st) == {st[j] : j \in 1..Len(st)}

\* C9: no snapshot copies a status or last-change record of an endpoint that a
\* remove or clear_all in progress has already popped, and when remove(id) or
\* clear_all returns none of the three maps holds the id (any id).
C9_RemoveAtomic ==
    \A t \in Threads :
        /\ ~call[t].torn
        /\ (call[t].op = "remove" /\ call[t].at = "exit") =>
              /\ call[t].number \notin Keys(stores)
              /\ call[t].number \notin DOMAIN status
              /\ call[t].number \notin DOMAIN last_change
        /\ (call[t].op = "clear_all" /\ call[t].at = "exit") =>
              /\ stores = <<>>
              /\ DOMAIN status = {}
              /\ DOMAIN last_change = {}

\* the monitor asks for a snapshot while a remove has popped the endpoint and
\* not yet its status
C9_Witness ==
    /\ call["ui"].op = "remove"
    /\ call["ui"].at = "l67"
    /\ call["ui"].number \in DOMAIN status
    /\ call["ui"].number \in DOMAIN last_change
    /\ call["mon"].op = "snapshot"
    /\ call["mon"].at = "enter"

\* C10: when upsert returns the id has exactly one entry, the value given; the
\* other entries, every status and every last-change record are as they were
\* when it was called; and if the value was already stored nothing changed.
C10_UpsertIdempotent ==
    \A t \in Threads :
        (call[t].op = "upsert" /\ call[t].at = "exit") =>
            LET s == call[t].store
                was == call[t].before
            IN  /\ Cardinality({j \in 1..Len(stores) : stores[j].number = s.number}) = 1
                /\ s \in Range(stores)
                /\ {x \in Range(stores) : x.number # s.number}
                      = {x \in Range(was.stores) : x.number # s.number}
                /\ status = was.status
                /\ last_change = was.last_change
                /\ s \in Range(was.stores) => stores = was.stores

\* a second upsert of the stored value, of an endpoint with a status and a stamp
C10_Witness ==
    /\ call["ui"].op = "upsert"
    /\ call["ui"].at = "exit"
    /\ call["ui"].store \in Range(call["ui"].before.stores)
    /\ call["ui"].store.number \in DOMAIN status
    /\ call["ui"].store.number \in DOMAIN last_change

\* C11: the triple a snapshot returns is the repository's stores, status and
\* last_change of one instant, the one at which the snapshot entered the lock;
\* nothing has changed under it by the time it returns.
C11_SnapshotOneInstant ==
    \A t \in Threads :
        (call[t].op = "snapshot" /\ call[t].at = "exit") =>
            /\ call[t].ret = call[t].before
            /\ call[t].ret = RepoNow

\* the presentation thread's snapshot returns a status while the monitor is
\* waiting to set another one
C11_Witness ==
    /\ call["ui"].op = "snapshot"
    /\ call["ui"].at = "exit"
    /\ DOMAIN call["ui"].ret.status # {}
    /\ call["ui"].ret.stores # <<>>
    /\ call["mon"].op = "set_status"
    /\ call["mon"].at = "enter"
    /\ call["mon"].online # StatusGet(status, call["mon"].number)

----------------------------------------------------------------------------
(* The repository's reads by object identity: Repo._stores maps a number to  *)
(* a Store object, get returns the object, snapshot returns dict copies      *)

MaxObjects == 2    \* Store objects constructed in one behaviour

\* self._stores[number] = obj, .pop(number, None), .get(number)
RefsSet(rs, number, o) ==
    IF \E j \in 1..Len(rs) : rs[j].number = number
    THEN [j \in 1..Len(rs) |-> IF rs[j].number = number
                               THEN [number |-> number, obj |-> o] ELSE rs[j]]
    ELSE Append(rs, [number |-> number, obj |-> o])
RefsPop(rs, number) == SelectSeq(rs, LAMBDA r : r.number # number)
RefsGet(rs, number) ==
    IF \E j \in 1..Len(rs) : rs[j].number = number
    THEN rs[CHOOSE j \in 1..Len(rs) : rs[j].number = number].obj
    ELSE NoObj

\* the field values seen through a dict of Store objects
Deref(h, rs) == [j \in 1..Len(rs) |-> [number |-> rs[j].number, store |-> h[rs[j].obj]]]

\* what a repository of Store objects h, dict rs and statuses ss holds
HoldsOf(h, rs, ss) == [stores |-> Deref(h, rs), status |-> ss]

\* what the caller sees in what it was handed, the Store objects being h
ViewOf(h, hd) ==
    [store |-> IF hd.store = NoObj THEN NoStore ELSE h[hd.store],
     stores |-> Deref(h, hd.stores),
     status |-> hd.status]

\* held after a step named op: whether the step changed what the caller had been
\* handed before it, and whether it changed what the repository holds
Stepped(hd, op) ==
    [hd EXCEPT !.op = op,
               !.view_changed = ViewOf(heap', hd) # ViewOf(heap, hd),
               !.repo_changed = HoldsOf(heap', refs', status') # HoldsOf(heap, refs, status)]

\* the Store objects the caller has in hand
HeldObjs == {held.stores[j].obj : j \in 1..Len(held.stores)} \cup ({held.store} \ {NoObj})

\* the addresses a caller may write into a Store it holds
CallerIps == {<<"9">>}

\* the Store values upserted, and the verdicts set, while reads are handed out
AliasStores == {Store(N7, <<>>, "", ""), Store(N99, <<" ">>, "", "")}
AliasNumbers == {s.number : s \in AliasStores}

\* repo.upsert(Store(...)): the caller constructs a Store, upsert keeps the object
AliasUpsert(s) ==
    /\ Cardinality(DOMAIN heap) < MaxObjects
    /\ LET o == Cardinality(DOMAIN heap) + 1
       IN  /\ heap' = DictSet(heap, o, s)
           /\ refs' = RefsSet(refs, s.number, o)
    /\ UNCHANGED <<repoVars, monVars, pingVars, lockVars, mainVars, uiVars, uiVars>>
    /\ held' = Stepped(held, "upsert")

\* repo.get(number): the object itself, or None
AliasGet(number) ==
    /\ UNCHANGED <<repoVars, monVars, pingVars, lockVars, mainVars, uiVars, heap, refs>>
    /\ held' = [Stepped(held, "get") EXCEPT !.store = RefsGet(refs, number)]

\* repo.snapshot(): dict(self._stores), dict(self._status) are new dicts of the same objects
AliasSnapshot ==
    /\ UNCHANGED <<repoVars, monVars, pingVars, lockVars, mainVars, uiVars, heap, refs>>
    /\ held' = [Stepped(held, "snapshot") EXCEPT !.stores = refs, !.status = status]

AliasRemove(number) ==
    /\ refs' = RefsPop(refs, number)
    /\ status' = DictPop(status, number)
    /\ last_change' = DictPop(last_change, number)
    /\ UNCHANGED <<stores, now, monVars, pingVars, lockVars, mainVars, uiVars, heap>>
    /\ held' = Stepped(held, "remove")

AliasClearAll ==
    /\ refs' = <<>>
    /\ status' = EmptyDict
    /\ last_change' = EmptyDict
    /\ UNCHANGED <<stores, now, monVars, pingVars, lockVars, mainVars, uiVars, heap>>
    /\ held' = Stepped(held, "clear_all")

AliasSetStatus(number, online) ==
    /\ status' = set_status_status(status, number, online)
    /\ last_change' = set_status_last_change(last_change, StatusKnown(status, number),
                                             StatusGet(status, number), number, online, now)
    /\ UNCHANGED <<stores, now, monVars, pingVars, lockVars, mainVars, uiVars, heap, refs>>
    /\ held' = Stepped(held, "set_status")

\* the caller assigns store.ip on a Store it was handed (Store is a plain dataclass)
CallerSetsField(o, ip) ==
    /\ o \in HeldObjs
    /\ heap' = [heap EXCEPT ![o].ip = ip]
    /\ UNCHANGED <<repoVars, monVars, pingVars, lockVars, mainVars, uiVars, refs>>
    /\ held' = Stepped(held, "caller_sets_field")

\* the caller deletes a key of the stores dict it was handed
CallerPopsStore(number) ==
    /\ \E j \in 1..Len(held.stores) : held.stores[j].number = number
    /\ UNCHANGED <<repoVars, monVars, pingVars, lockVars, mainVars, uiVars, heap, refs>>
    /\ held' = [Stepped(held, "caller_pops_store") EXCEPT !.stores = RefsPop(held.stores, number)]

\* the caller assigns a key of the status dict it was handed
CallerSetsStatus(number, online) ==
    /\ number \in DOMAIN held.status
    /\ UNCHANGED <<repoVars, monVars, pingVars, lockVars, mainVars, uiVars, heap, refs>>
    /\ held' = [Stepped(held, "caller_sets_status") EXCEPT
                   !.status = DictSet(held.status, number, online)]

AliasNext ==
    \/ \E s \in AliasStores : AliasUpsert(s)
    \/ \E n \in AliasNumbers : AliasGet(n)
    \/ AliasSnapshot
    \/ \E n \in AliasNumbers : AliasRemove(n)
    \/ AliasClearAll
    \/ \E n \in AliasNumbers : AliasSetStatus(n, TRUE)
    \/ \E o \in 1..MaxObjects, ip \in CallerIps : CallerSetsField(o, ip)
    \/ \E n \in AliasNumbers : CallerPopsStore(n)
    \/ \E n \in AliasNumbers : CallerSetsStatus(n, FALSE)

SpecAlias == Init /\ [][AliasNext]_vars

\* C12: what get and snapshot handed out is not changed by a later repository
\* operation, and a caller changing the maps or a Store it was handed does not
\* change what the repository holds.
C12_ReadsIndependent ==
    /\ held.op \in {"upsert", "remove", "clear_all", "set_status"} => ~held.view_changed
    /\ held.op \in {"caller_sets_field", "caller_pops_store", "caller_sets_status"} =>
          ~held.repo_changed

----------------------------------------------------------------------------
(* The cycle and the repository under interleaved presentation-layer calls *)

\* the cycle stands between its snapshot and the end of its sleep
InCycle == pc \in {"gather", "on_ping", "set", "refresh", "notify", "sleep"}

\* what a cycle probes and reports is what its snapshot held
OfSnapshot ==
    InCycle =>
        /\ Len(ordered) = Len(snap_stores)
        /\ Len(futs) = Len(snap_stores)
        /\ \A j \in 1..Len(snap_stores) :
              /\ ordered[j].number = snap_stores[j].number
              /\ futs[j].state # "none" => futs[j].ip = ExpectedAddress(snap_stores[j])
        /\ Len(sink) <= Len(snap_stores)
        /\ \A k \in 1..Len(sink) : sink[k].number = snap_stores[k].number
        /\ pc = "sleep" => Len(sink) = Len(snap_stores)

\* C13: a cycle takes one snapshot, at its start, of the endpoints the repository
\* holds then; it probes and reports exactly those, each at the address it had
\* in the snapshot, whatever is upserted, edited or removed while it runs; the
\* next cycle's snapshot holds every endpoint present when that cycle starts.
C13_CycleUsesStartSnapshot ==
    [][/\ (pc = "cycle" /\ pc' = "gather") => snap_stores' = stores
       /\ ~(pc = "cycle" /\ pc' = "gather") => snap_stores' = snap_stores
       /\ OfSnapshot']_vars

\* during the cycle endpoint 0099 was added and endpoint 7 was given an explicit
\* address: the cycle reported 7 alone, probed at the table's address
C13_Witness ==
    /\ pc = "sleep"
    /\ snap_stores = <<Store(N7, <<>>, "", "")>>
    /\ stores = <<Store(N7, <<" ", "1", ".", "2", " ">>, "GTT", "HD-1"), Store(N99, <<" ">>, "", "")>>
    /\ futs[1].state = "done"
    /\ futs[1].ip = <<"1", "0", ".", "9">>
    /\ Len(sink) = 1
    /\ sink[1].number = N7

\* C14: when the scheduler has applied the verdict of an endpoint that the
\* repository holds at that moment, the repository's status for the endpoint is
\* the verdict's online value.
C14_StatusIsVerdict ==
    [][(pc = "set" /\ pc' # "set" /\ ordered[i].number \in Keys(stores)) =>
          /\ ordered[i].number \in DOMAIN status'
          /\ status'[ordered[i].number] = ResultOf(futs, i)[1]]_vars

\* C16: the loop ends only after stop() was called, and a cycle does not end
\* before the result loop has handled every entry of `ordered`, whatever failed
\* or raised on the way.
C16_OnlyStopEndsLoop ==
    /\ pc = "stopped" => stop
    /\ pc = "sleep" => (i = Len(ordered) + 1 /\ Len(sink) = Len(ordered))

\* a cycle ended, not stopped, in which a probe task failed and notify raised
C16_Witness ==
    /\ pc = "sleep"
    /\ ~stop
    /\ \E j \in 1..Len(futs) : futs[j].state = "failed"
    /\ cur.notify_raised
    /\ Len(ordered) = 2

\* C18: in a completed cycle the sink was called once for each endpoint of the
\* snapshot, and the sink call for an endpoint comes before the repository
\* update for it: at the update the sink has been called for exactly the
\* endpoints up to this one.
C18_SinkOncePerEndpoint ==
    /\ pc = "sleep" =>
          /\ Len(sink) = Len(snap_stores)
          /\ \A k \in 1..Len(sink) : sink[k].number = snap_stores[k].number
    /\ pc = "on_ping" => Len(sink) = i - 1
    /\ pc \in {"set", "refresh", "notify"} =>
          (Len(sink) = i /\ sink[i].number = ordered[i].number)
    /\ cur.set => (Len(sink) >= 1 /\ sink[Len(sink)].number = cur.number)

\* a completed cycle over an endpoint whose verdict is the status already
\* known and an endpoint without an address
C18_Witness ==
    /\ pc = "sleep"
    /\ Len(sink) = 2
    /\ sink[1].number = N7
    /\ N7 \in DOMAIN snap_status
    /\ snap_status[N7] = sink[1].online
    /\ sink[2].number = N99
    /\ sink[2].ip = <<"-">>

\* C19: when notify raises for an endpoint whose verdict differs from the status
\* the repository knew, the repository holds the new status and the last-change
\* time stamped at the update; the raising step itself leaves the repository as
\* it is and the result loop moves to the next entry, so that the cycle ends
\* with every entry handled.
C19_NotifyFailureIsolated ==
    [][/\ (~cur.notify_raised /\ cur'.notify_raised) =>
             /\ UNCHANGED <<stores, status, last_change>>
             /\ i' = i + 1
             /\ pc' = (IF i + 1 <= Len(ordered) THEN "on_ping" ELSE "sleep")
       /\ cur'.notify_raised =>
             /\ cur'.set /\ cur'.stored
             /\ (cur'.known /\ cur'.prev # cur'.online) => cur'.lc = cur'.at
       /\ pc' = "sleep" => Len(sink') = Len(ordered')]_vars

\* notify raised for the first of two endpoints after its flip was stored and
\* stamped, and the loop stands at the second
C19_Witness ==
    /\ cur.notify_raised
    /\ cur.known
    /\ cur.prev # cur.online
    /\ cur.stored
    /\ cur.lc = cur.at
    /\ pc = "on_ping"
    /\ i = 2
    /\ Len(ordered) = 2

\* C17: an endpoint whose probe task failed or was cancelled is reported as
\* offline without latency and without successes; every endpoint whose probe
\* returned is reported with that probe's verdict; each verdict handled is the
\* status the repository records for the endpoint; and the cycle ends with all
\* endpoints reported.
C17_FailedProbeIsolated ==
    /\ \A k \in 1..Len(sink) :
          /\ futs[k].state = "failed" =>
                (~sink[k].online /\ sink[k].latency_ms = NoneInt /\ sink[k].success_count = 0)
          /\ futs[k].state = "done" =>
                <<sink[k].online, sink[k].latency_ms, sink[k].success_count>> = futs[k].res
          /\ ((k < i \/ pc = "sleep") /\ sink[k].number \in DOMAIN status) =>
                status[sink[k].number] = sink[k].online
    /\ pc = "sleep" => Len(sink) = Len(ordered)

\* the second of three probes failed, the others returned online
C17_Witness ==
    /\ pc = "sleep"
    /\ Len(sink) = 3
    /\ futs[2].state = "failed"
    /\ sink[2] = [number |-> N12, ip |-> <<"3">>, online |-> FALSE,
                  latency_ms |-> NoneInt, success_count |-> 0]
    /\ sink[1].online /\ sink[1].latency_ms = 12
    /\ sink[3].online /\ sink[3].latency_ms = 12
    /\ status = (N7 :> TRUE) @@ (N12 :> FALSE) @@ (N99 :> TRUE)

\* C15: once stop() has been called on a started monitor the loop reaches its
\* end, and when it has ended the result loop of the last cycle has handled
\* every endpoint of that cycle's snapshot.
C15_StopTerminates ==
    /\ (stop /\ pc # "init") ~> (pc = "stopped")
    /\ [][pc' = "stopped" =>
             (i' = Len(ordered') + 1 /\ Len(sink') = Len(snap_stores'))]_vars

\* stop() was called while a cycle over two endpoints is in flight, the first
\* verdict not yet applied
C15_Witness ==
    /\ stop
    /\ pc = "set"
    /\ i = 1
    /\ Len(ordered) = 2
    /\ Len(sink) = 1

----------------------------------------------------------------------------
(* main.py, the single-file monitor: two runs fed the same store operations, *)
(* probe outcomes and notification backend, each with its own toggle         *)

\* store_data keys and the dict operations on it (insertion ordered)
DataKeys(sd) == {sd[j].store : j \in 1..Len(sd)}
DataSet(sd, store, ip) ==
    IF store \in DataKeys(sd)
    THEN [j \in 1..Len(sd) |-> IF sd[j].store = store THEN [store |-> store, ip |-> ip] ELSE sd[j]]
    ELSE Append(sd, [store |-> store, ip |-> ip])
DataPop(sd, store) == SelectSeq(sd, LAMBDA d : d.store # store)

\* one pass of the for loop of monitor_loop over the entries sd, from status st
\* and last changes lc: up is what is_online returns for each store, enabled
\* the toggle, raises whether notification.notify raises, t the clock.
\* An exception leaves the loop and the thread: alive is FALSE.
RECURSIVE monitor_loop_pass(_, _, _, _, _, _, _)
monitor_loop_pass(sd, st, lc, up, enabled, raises, t) ==
    IF sd = <<>> THEN [status |-> st, last_change |-> lc, alive |-> TRUE]
    ELSE LET store == Head(sd).store
             current_status == up[store]
         IN  IF store \notin DOMAIN st
             THEN monitor_loop_pass(Tail(sd), DictSet(st, store, current_status),
                                    IF current_status THEN DictSet(lc, store, t) ELSE lc,
                                    up, enabled, raises, t)
             ELSE IF st[store] # current_status
             THEN IF enabled /\ raises
                  THEN [status |-> DictSet(st, store, current_status),
                        last_change |-> DictSet(lc, store, t), alive |-> FALSE]
                  ELSE monitor_loop_pass(Tail(sd), DictSet(st, store, current_status),
                                         DictSet(lc, store, t), up, enabled, raises, t)
             ELSE monitor_loop_pass(Tail(sd), st, lc, up, enabled, raises, t)

\* what the operator types into the Add Store dialog
MainStoreEntries == {<<"7">>, <<"9", "9">>}
MainIps == {<<>>, <<"1">>}

\* add_store / finish_add
MainAdd(entry, ip) ==
    /\ LET store == zfill(entry, 4)
       IN  store_data' = IF store = <<>> \/ ip = <<>> THEN store_data
                         ELSE DataSet(store_data, store, ip)
    /\ UNCHANGED <<repoVars, monVars, pingVars, lockVars, aliasVars, uiVars,
                   status_dict, last_change_dict, enable_notifications, main_pc>>

\* remove_store of the selected row
MainRemove(store) ==
    /\ store \in DataKeys(store_data)
    /\ store_data' = DataPop(store_data, store)
    /\ status_dict' = [r \in Runs |-> DictPop(status_dict[r], store)]
    /\ last_change_dict' = [r \in Runs |-> DictPop(last_change_dict[r], store)]
    /\ UNCHANGED <<repoVars, monVars, pingVars, lockVars, aliasVars, uiVars,
                   enable_notifications, main_pc>>

\* the Enable Notifications checkbox of one run is clicked
ToggleNotifications(r) ==
    /\ enable_notifications' = [enable_notifications EXCEPT ![r] = ~@]
    /\ UNCHANGED <<repoVars, monVars, pingVars, lockVars, aliasVars, uiVars,
                   store_data, status_dict, last_change_dict, main_pc>>

\* one iteration of while True in monitor_loop, in each run whose thread lives
MainCycle(up, raises) ==
    /\ \E r \in Runs : main_pc[r] = "loop"
    /\ LET pass(r) == monitor_loop_pass(store_data, status_dict[r], last_change_dict[r],
                                        up, enable_notifications[r], raises, now)
           runs(r) == main_pc[r] = "loop"
       IN  /\ status_dict' = [r \in Runs |-> IF runs(r) THEN pass(r).status ELSE status_dict[r]]
           /\ last_change_dict' =
                 [r \in Runs |-> IF runs(r) THEN pass(r).last_change ELSE last_change_dict[r]]
           /\ main_pc' = [r \in Runs |-> IF runs(r) /\ ~pass(r).alive THEN "dead" ELSE main_pc[r]]
    /\ UNCHANGED <<repoVars, monVars, pingVars, lockVars, aliasVars, uiVars,
                   store_data, enable_notifications>>

MainNext ==
    \/ \E entry \in MainStoreEntries, ip \in MainIps : MainAdd(entry, ip)
    \/ \E store \in {zfill(e, 4) : e \in MainStoreEntries} : MainRemove(store)
    \/ \E r \in Runs : ToggleNotifications(r)
    \/ \E up \in [DataKeys(store_data) -> BOOLEAN], raises \in BOOLEAN : MainCycle(up, raises)
    \/ Tick

SpecMain == Init /\ [][MainNext]_vars

\* C20: two runs given the same store operations and probe outcomes, whatever
\* the toggle is in each, have the same recorded statuses and last-change times.
C20_ToggleNoninterference ==
    /\ status_dict[1] = status_dict[2]
    /\ last_change_dict[1] = last_change_dict[2]

----------------------------------------------------------------------------
(* The key sets of the repository's three dicts *)

\* C29: under any interleaving of cycles with upsert, remove and clear_all every
\* id that has a status record is the id of an endpoint the repository stores
\* now: no status record is created or revived for a removed endpoint.
C29_StatusOnlyOfStored ==
    DOMAIN status \subseteq Keys(stores)

\* C30: whenever no repository method is part way through its statements, every
\* id with a last-change timestamp also has a status record, after any
\* interleaving of upsert, remove, clear_all and set_status calls.
C30_StampOnlyWithStatus ==
    (lock = "" \/ call[lock].at = "exit") => DOMAIN last_change \subseteq DOMAIN status

\* remove has returned for an endpoint that had a stamp, another one keeps its own
C30_Witness ==
    /\ call["ui"].op = "remove"
    /\ call["ui"].at = "exit"
    /\ call["ui"].number \in DOMAIN call["ui"].before.last_change
    /\ DOMAIN last_change # {}

----------------------------------------------------------------------------
(* The Stop signal and the loop *)

\* C27: the loop tests the Stop signal at both boundaries: with Stop set, a cycle
\* that completes does not go on to Sleeping, and a sleep that ends does not go
\* on to another cycle.
C27_StopTestedBothWays ==
    [][stop =>
          /\ ~(pc \notin {"sleep", "stopped"} /\ pc' = "sleep")
          /\ ~(pc \in {"sleep", "loop"} /\ pc' = "cycle")]_vars

----------------------------------------------------------------------------
(* The aggregate's failures *)

\* C24: ping_with_stats returns a verdict triple whatever the ping process does
\* and never lets an exception out; when running the process fails (timeout, OS
\* error) or its output has no count of replies the verdict is offline.
C24_PingTotal ==
    ping_pc = "return" =>
        /\ Len(ping_out) = 3
        /\ ping_out[1] \in BOOLEAN
        /\ ping_out[2] \in Nat \cup {NoneInt}
        /\ ping_out[3] \in Nat
        /\ ping_in.raised # "" => ~ping_out[1]
        /\ re_search(ping_in.stdout, "Received", Units) = NoneInt => ~ping_out[1]

\* the process could not be run, whatever output was expected of it
C24_Witness ==
    /\ ping_pc = "return"
    /\ ping_in.raised = "OSError"
    /\ ping_in.stdout # <<>>
    /\ ping_out = <<FALSE, NoneInt, 0>>

----------------------------------------------------------------------------
(* One cycle after another *)

\* C22: cycles are totally ordered and never overlap: a cycle takes its snapshot
\* only when the cycle before it has no probe left running and has reported and
\* applied the result of every one of its endpoints, and results are applied
\* only to the endpoints of the cycle begun last, after all its probes ended.
C22_CyclesTotallyOrdered ==
    [][/\ (pc = "cycle" /\ pc' = "gather") =>
              /\ Unfinished(futs) = {}
              /\ i = Len(ordered) + 1
              /\ Len(sink) = Len(ordered)
              /\ ordered # <<>> => (cur.done /\ cur.number = ordered[Len(ordered)].number)
       /\ pc' \in {"on_ping", "set", "refresh", "notify"} =>
              /\ Unfinished(futs') = {}
              /\ pc # "gather" => (ordered' = ordered /\ futs' = futs
                                    /\ snap_status' = snap_status)
              /\ i' \in 1..Len(ordered')
              /\ Len(sink') \in {i' - 1, i'}]_vars

\* a second cycle probing, the first one having applied a status
C22_Witness ==
    /\ pc = "gather"
    /\ DOMAIN snap_status # {}
    /\ Len(ordered) = 2
    /\ Unfinished(futs) # {}

\* C28: at most one cycle begins after stop() has returned; and when stop() was
\* called before start() the loop exits without a cycle: no snapshot is taken
\* and no probe is dispatched.
C28_AtMostOneCycleAfterStop ==
    /\ after_stop.begun <= 1
    /\ after_stop.before_start =>
          /\ after_stop.begun = 0
          /\ pc \in {"init", "loop", "stopped"}
          /\ snap_stores = <<>> /\ ordered = <<>> /\ futs = <<>>

\* stop() came between the loop's test and the snapshot: that cycle ran, over an
\* endpoint, and the loop then exited
C28_Witness ==
    /\ after_stop.begun = 1
    /\ pc = "stopped"
    /\ Len(sink) = 1

----------------------------------------------------------------------------
(* The executor's worker threads: one monitor over three endpoints with an     *)
(* address each and fewer workers than endpoints                               *)

\* the max_workers of the executor: PING_EXECUTOR_MAX_WORKERS, 50 in the source,
\* scaled down so that the endpoints outnumber the workers
MaxWorkers == 2

Running(fs) == {j \in 1..Len(fs) : fs[j].state = "running"}
Queued(fs) == {j \in 1..Len(fs) : fs[j].state = "pending"}

\* as CanStart, a thread spawned for every task submitted
CanStart_unbounded(fs, max_workers) == TRUE

\* ThreadPoolExecutor: a work item is taken by an idle worker, or by a new
\* thread while fewer than max_workers exist
CanStart(fs, max_workers) == Cardinality(Running(fs)) < max_workers

\* a worker takes the oldest queued work item and calls ping_with_stats
WorkerTakes(j) ==
    /\ pc = "gather"
    /\ j \in Queued(futs)
    /\ \A k \in Queued(futs) : j <= k
    /\ CanStart(futs, MaxWorkers)
    /\ futs' = [futs EXCEPT ![j].state = "running"]
    /\ UNCHANGED <<repoVars, pc, stop, snap_status, ordered, i, sink, cur, snap_stores, completed, after_stop, pingVars, lockVars, aliasVars, mainVars, uiVars>>

\* the worker returns from ping_with_stats and sets the future's result
WorkerReturns(j) ==
    /\ pc = "gather"
    /\ j \in Running(futs)
    /\ \E out \in CycleStdouts, raised \in CycleRaises :
          futs' = [futs EXCEPT ![j].state = "done",
                               ![j].res = ping_with_stats_on(out, raised, PING_QUORUM)]
    /\ completed' = Append(completed, j)
    /\ UNCHANGED <<repoVars, pc, stop, snap_status, ordered, i, sink, cur, snap_stores, after_stop, pingVars, lockVars, aliasVars, mainVars, uiVars>>

\* the call ends with an exception: the worker sets it on the future
WorkerFails(j) ==
    /\ pc = "gather"
    /\ j \in Running(futs)
    /\ futs' = [futs EXCEPT ![j].state = "failed"]
    /\ completed' = Append(completed, j)
    /\ UNCHANGED <<repoVars, pc, stop, snap_status, ordered, i, sink, cur, snap_stores, after_stop, pingVars, lockVars, aliasVars, mainVars, uiVars>>

PoolNext ==
    \/ Start
    \/ Stop
    \/ LoopTest
    \/ CycleBegin
    \/ \E j \in 1..Len(futs) : WorkerTakes(j)
    \/ \E j \in 1..Len(futs) : WorkerReturns(j)
    \/ \E j \in 1..Len(futs) : WorkerFails(j)
    \/ Gathered
    \/ OnPing
    \/ ApplyStatus
    \/ Refresh
    \/ Notify
    \/ Sleep

SpecPool == OrderInit /\ [][PoolNext]_vars

\* the entries of the cycle's snapshot that have an address
Resolved == {j \in 1..Len(ordered) : ordered[j].effective_ip # <<>>}

\* C21: never more than max_workers calls of ping_with_stats are executing, and
\* when the cycle starts on its results every endpoint with an address has been
\* probed exactly once, though the endpoints outnumber the workers.
C21_WorkerCap ==
    /\ Cardinality(Running(futs)) <= MaxWorkers
    /\ pc \in {"on_ping", "set", "refresh", "notify", "sleep"} =>
          \A j \in Resolved :
              /\ Cardinality({k \in 1..Len(completed) : completed[k] = j}) = 1
              /\ futs[j].state \in {"done", "failed"}

\* three endpoints probed by two workers, the third probe started when the
\* second worker was free again
C21_Witness ==
    /\ pc = "on_ping"
    /\ Cardinality(Resolved) > MaxWorkers
    /\ completed = <<2, 1, 3>>

----------------------------------------------------------------------------
(* The aggregate over the echo samples of one ping process                    *)
(*                                                                            *)
(* ping_with_stats runs ["ping", "-n", str(count), ip] with a timeout of      *)
(* PING_TIMEOUT_MS * count for the whole process. The command line sets       *)
(* neither ping's wait for a reply (-w) nor anything else, so ping waits its  *)
(* default 4000 ms for each reply and pauses 1000 ms after a reply before the *)
(* next echo request.                                                         *)

PingWaitMs == 4000
PingSpacingMs == 1000

\* a sample is the round-trip time of its reply in ms, or Lost
Lost == -1
SampleValues == {10, 12, 14, Lost}
Samples == [1..PING_COUNT -> SampleValues]

Replies(samples) == SelectSeq(samples, LAMBDA x : x # Lost)

RECURSIVE SumSeq(_)
SumSeq(s) == IF s = <<>> THEN 0 ELSE Head(s) + SumSeq(Tail(s))

\* how long the ping process runs: for each echo the reply's time and the pause
\* before the next request, or the full wait when no reply comes
RECURSIVE PingDuration(_)
PingDuration(samples) ==
    IF samples = <<>> THEN 0
    ELSE (IF Head(samples) = Lost THEN PingWaitMs
          ELSE Head(samples) + (IF Len(samples) > 1 THEN PingSpacingMs ELSE 0))
         + PingDuration(Tail(samples))

\* the statistics ping prints when it ends: the times only if a reply came
PingPrints(samples) ==
    LET r == Len(Replies(samples))
    IN  <<Field("Sent", Len(samples), ""), Field("Received", r, "")>>
        \o (IF r > 0 THEN <<Field("Average", SumSeq(Replies(samples)) \div r, "ms")>>
            ELSE <<>>)

\* subprocess.run(..., timeout=timeout_sec): the process is killed and
\* TimeoutExpired raised when it runs longer than PING_TIMEOUT_MS * count
RunRaises(samples, count) ==
    IF PingDuration(samples) > PING_TIMEOUT_MS * count THEN "TimeoutExpired" ELSE ""

SampleInit ==
    /\ ping_pc = "call"
    /\ \E s \in Samples :
          ping_in = [stdout |-> PingPrints(s), raised |-> RunRaises(s, PING_COUNT),
                     quorum |-> PING_QUORUM, samples |-> s]
    /\ ping_out = <<FALSE, NoneInt, 0>>
    /\ RepoIdle
    /\ MonIdle
    /\ LockIdle
    /\ AliasIdle
    /\ MainIdle
    /\ UiIdle

SampleNext == PingReturn

SpecSamples == SampleInit /\ [][SampleNext]_vars

\* C25: a sample that times out counts as one unsuccessful sample and leaves
\* the other samples' successes in the verdict: the success count is the number
\* of replies, the verdict is online when that reaches the quorum, and the
\* latency is the mean of the replies (3 of 4 at 10, 12, 14 ms: online, 3, 12).
C25_LostSampleCountsOnce ==
    ping_pc = "return" =>
        LET replies == Replies(ping_in.samples)
            r == Len(replies)
        IN  ping_out = <<r >= ping_in.quorum,
                         IF r > 0 THEN SumSeq(replies) \div r ELSE NoneInt,
                         r>>

----------------------------------------------------------------------------
(* The cycle's repository calls under Repo._lock, beside the presentation     *)
(* thread's: the monitor takes the lock inside snapshot() and set_status()    *)

IoInit ==
    /\ stores = <<StoreA, StoreB>>
    /\ status = EmptyDict
    /\ last_change = EmptyDict
    /\ now = 0
    /\ MonIdle
    /\ PingIdle
    /\ LockIdle
    /\ AliasIdle
    /\ MainIdle
    /\ UiIdle

\* _run_cycle calls self.repo.snapshot()
IoSnapshotCall ==
    /\ pc = "cycle"
    /\ call["mon"].at = "idle"
    /\ call' = [call EXCEPT !["mon"] = [IdleCall EXCEPT !.op = "snapshot", !.at = "enter"]]
    /\ pc' = "snapshot"
    /\ UNCHANGED <<repoVars, lock, stop, snap_status, ordered, futs, i, sink, cur, snap_stores, completed, after_stop, pingVars, aliasVars, mainVars, uiVars>>

\* as IoCycleBegin, the tasks submitted with Repo._lock still held
IoCycleBegin_holding ==
    /\ pc = "snapshot"
    /\ call["mon"].at = "exit"
    /\ snap_stores' = call["mon"].ret.stores
    /\ snap_status' = call["mon"].ret.status
    /\ ordered' = BuildOrdered(snap_stores')
    /\ futs' = SubmitTasks(ordered')
    /\ i' = 1
    /\ sink' = <<>>
    /\ cur' = NoCur
    /\ completed' = <<>>
    /\ pc' = "gather"
    /\ UNCHANGED <<repoVars, lockVars, stop, after_stop, pingVars, aliasVars, mainVars, uiVars>>

\* snapshot() leaves the lock and returns; `ordered` is built and the tasks are
\* submitted
IoCycleBegin ==
    /\ pc = "snapshot"
    /\ call["mon"].at = "exit"
    /\ lock' = ""
    /\ call' = [call EXCEPT !["mon"] = IdleCall]
    /\ snap_stores' = call["mon"].ret.stores
    /\ snap_status' = call["mon"].ret.status
    /\ ordered' = BuildOrdered(snap_stores')
    /\ futs' = SubmitTasks(ordered')
    /\ i' = 1
    /\ sink' = <<>>
    /\ cur' = NoCur
    /\ completed' = <<>>
    /\ pc' = "gather"
    /\ UNCHANGED <<repoVars, stop, after_stop, pingVars, aliasVars, mainVars, uiVars>>

\* prev = status.get(number); self.repo.set_status(number, online) is called
\* when prev is None or differs
IoApplyStatus ==
    /\ pc = "set"
    /\ call["mon"].at = "idle"
    /\ LET number == ordered[i].number
           online == ResultOf(futs, i)[1]
           calls == CallsSetStatus(snap_status, number, online)
       IN  /\ call' = IF calls
                      THEN [call EXCEPT !["mon"] =
                               [IdleCall EXCEPT !.op = "set_status", !.number = number,
                                                !.online = online, !.at = "enter"]]
                      ELSE call
           /\ cur' = [cur EXCEPT !.set = calls, !.done = ~calls]
           /\ pc' = IF calls THEN "set_status" ELSE LoopAt(i + 1)
           /\ i' = IF calls THEN i ELSE i + 1
    /\ UNCHANGED <<repoVars, lock, stop, snap_status, ordered, futs, sink, snap_stores, completed, after_stop, pingVars, aliasVars, mainVars, uiVars>>

\* set_status() leaves the lock and returns
IoSetStatusReturns ==
    /\ pc = "set_status"
    /\ call["mon"].at = "exit"
    /\ lock' = ""
    /\ call' = [call EXCEPT !["mon"] = IdleCall]
    /\ pc' = "refresh"
    /\ UNCHANGED <<repoVars, stop, snap_status, ordered, futs, i, sink, cur, snap_stores, completed, after_stop, pingVars, aliasVars, mainVars, uiVars>>

IoNext ==
    \/ CallSnapshot("ui")
    \/ CallUpsert(StoreB)
    \/ CallRemove(N12)
    \/ \E t \in Threads : Acquire(t)
    \/ Release("ui")
    \/ L45("ui")
    \/ L66("ui")
    \/ L67("ui")
    \/ L68("ui")
    \/ L93("mon")
    \/ L94("mon")
    \/ L95("mon")
    \/ \E t \in Threads : L107Stores(t)
    \/ \E t \in Threads : L107Status(t)
    \/ \E t \in Threads : L107LastChange(t)
    \/ Start
    \/ LoopTest
    \/ IoSnapshotCall
    \/ IoCycleBegin
    \/ \E j \in 1..Len(futs) : ProbeReturns(j)
    \/ \E j \in 1..Len(futs) : ProbeFails(j)
    \/ Gathered
    \/ OnPing
    \/ IoApplyStatus
    \/ IoSetStatusReturns
    \/ Refresh
    \/ Notify
    \/ Sleep

SpecIO == IoInit /\ [][IoNext]_vars

\* C26: the monitor thread never holds Repo._lock while a probe is in flight, so
\* a snapshot or CRUD call of the presentation thread that waits for the lock
\* during the probes can enter at once: it never waits for a probe to end.
C26_NoLockDuringProbes ==
    /\ lock = "mon" => Unfinished(futs) = {}
    /\ (call["ui"].at = "enter" /\ Unfinished(futs) # {}) => CanAcquire(lock)

\* the presentation thread's snapshot has run through while both probes of the
\* cycle are still in flight
C26_Witness ==
    /\ pc = "gather"
    /\ Cardinality(Unfinished(futs)) = 2
    /\ call["ui"].op = "snapshot"
    /\ call["ui"].at = "exit"
    /\ call["ui"].ret.stores # <<>>

----------------------------------------------------------------------------
(* app/ui.py: the handlers that change the endpoint set, beside the monitor   *)
(* thread. A handler calls the repository, then refresh_ui, then              *)
(* save_callback; the monitor thread runs between those calls.                *)

\* what the user types in the Store # and IP Address fields
UiNumbers == {<<"7">>, <<"9", "9">>}
UiIps == {<<>>, <<" ", "1">>}

\* the Save button handlers refuse an endpoint with neither an address typed
\* nor one in the lookup table
UiAccepts(number, ip) == ~(ip = <<>> /\ get_ip_for_store(number) = None)

\* as UiAddSave, without the test of the address
UiAddSave_unchecked(raw_number, raw_ip) ==
    /\ ui.at = "idle"
    /\ stores' = StoresSet(stores, Store(zfill(strip(raw_number), 4), strip(raw_ip), "", ""))
    /\ ui' = [ui EXCEPT !.at = "refresh", !.op = "add", !.typed = raw_number]
    /\ UNCHANGED <<status, last_change, now, monVars, pingVars, lockVars, aliasVars, mainVars>>

\* add_store's save(): the number is trimmed and padded, the address trimmed;
\* ui.op and ui.typed record the handler run last and the Store # it was given
UiAddSave(raw_number, raw_ip) ==
    /\ ui.at = "idle"
    /\ LET number == zfill(strip(raw_number), 4)
           ip == strip(raw_ip)
       IN  IF number # <<>> /\ UiAccepts(number, ip)
           THEN /\ stores' = StoresSet(stores, Store(number, ip, "", ""))
                /\ ui' = [ui EXCEPT !.at = "refresh", !.op = "add", !.typed = raw_number]
           ELSE /\ stores' = stores
                /\ ui' = [ui EXCEPT !.op = "add_rejected", !.typed = raw_number]
    /\ UNCHANGED <<status, last_change, now, monVars, pingVars, lockVars, aliasVars, mainVars>>

\* edit_store's save() for the selected row, found by repo.get
UiEditSave(number, raw_ip) ==
    /\ ui.at = "idle"
    /\ number \in Keys(stores)
    /\ LET ip == strip(raw_ip)
       IN  IF UiAccepts(number, ip)
           THEN /\ stores' = StoresSet(stores, Store(number, ip, "", ""))
                /\ ui' = [ui EXCEPT !.at = "refresh", !.op = "edit", !.typed = number]
           ELSE /\ stores' = stores
                /\ ui' = [ui EXCEPT !.op = "edit_rejected", !.typed = number]
    /\ UNCHANGED <<status, last_change, now, monVars, pingVars, lockVars, aliasVars, mainVars>>

\* as UiRemove, save_callback called before repo.remove
UiRemove_saves_first(number) ==
    /\ ui.at = "idle"
    /\ number \in Keys(stores)
    /\ stores' = StoresPop(stores, number)
    /\ status' = DictPop(status, number)
    /\ last_change' = DictPop(last_change, number)
    /\ ui' = [ui EXCEPT !.op = "remove", !.saved = stores]
    /\ UNCHANGED <<now, monVars, pingVars, lockVars, aliasVars, mainVars>>

\* remove_store of the selected row: repo.remove(number)
UiRemove(number) ==
    /\ ui.at = "idle"
    /\ number \in Keys(stores)
    /\ stores' = StoresPop(stores, number)
    /\ status' = DictPop(status, number)
    /\ last_change' = DictPop(last_change, number)
    /\ ui' = [ui EXCEPT !.at = "refresh", !.op = "remove"]
    /\ UNCHANGED <<now, monVars, pingVars, lockVars, aliasVars, mainVars>>

\* delete_all, confirmed: repo.clear_all()
UiDeleteAll ==
    /\ ui.at = "idle"
    /\ stores' = <<>>
    /\ status' = EmptyDict
    /\ last_change' = EmptyDict
    /\ ui' = [ui EXCEPT !.at = "refresh", !.op = "delete_all"]
    /\ UNCHANGED <<now, monVars, pingVars, lockVars, aliasVars, mainVars>>

\* self.refresh_ui(): the rows are rebuilt from a snapshot
UiRefresh ==
    /\ ui.at = "refresh"
    /\ ui' = [ui EXCEPT !.at = "save"]
    /\ UNCHANGED <<repoVars, monVars, pingVars, lockVars, aliasVars, mainVars>>

\* self.save_callback(): the endpoint list of the repository, as it is now, is
\* handed to the save routine
UiSaveCallback ==
    /\ ui.at = "save"
    /\ ui' = [ui EXCEPT !.at = "idle", !.saved = stores]
    /\ UNCHANGED <<repoVars, monVars, pingVars, lockVars, aliasVars, mainVars>>

UiNext ==
    \/ \E n \in UiNumbers, ip \in UiIps : UiAddSave(n, ip)
    \/ \E n \in Numbers : UiEditSave(n, <<" ", "1">>)
    \/ \E n \in Numbers : UiRemove(n)
    \/ UiDeleteAll
    \/ UiRefresh
    \/ UiSaveCallback
    \/ Start
    \/ LoopTest
    \/ CycleBegin
    \/ \E j \in 1..Len(futs) : ProbeReturns(j)
    \/ Gathered
    \/ OnPing
    \/ ApplyStatus
    \/ Refresh
    \/ Notify
    \/ Sleep

SpecUI == Init /\ [][UiNext]_vars

\* C23: when a handler that changes the endpoint set (add, edit, remove, delete
\* all) has finished, the list last handed to the save routine is the
\* repository's endpoint list with that change in it; the endpoint set changes
\* in no other way, and no step of the monitor thread (set_status, sink,
\* refresh, notify) hands anything to the save routine.
C23_UiSavesAfterMutation ==
    [][/\ ui'.at = "idle" => ui'.saved = stores'
       /\ stores' # stores => (ui.at = "idle" /\ ui'.at # "save")
       /\ ui'.saved # ui.saved => (ui.at = "save" /\ ui'.saved = stores)
       /\ ui' # ui => monVars' = monVars]_vars

\* an edit has been saved while the monitor is handling a verdict of the cycle
C23_Witness ==
    /\ ui.at = "idle"
    /\ ui.op = "edit"
    /\ Len(ui.saved) = 2
    /\ ui.saved = stores
    /\ pc = "refresh"

----------------------------------------------------------------------------
(* What set_status and remove leave alone *)

\* the records of dict d for the ids other than number
Others(d, number) == [x \in DOMAIN d \ {number} |-> d[x]]

\* C31: when set_status(id, v) returns, the endpoint map and the status and
\* last-change records of every other id are as they were when it entered; when
\* remove(id) returns, every other id's endpoint, status and last-change record
\* are as they were, and each map that did not hold id is unchanged.
C31_FrameOfSetStatusAndRemove ==
    \A t \in Threads :
        LET n == call[t].number
            was == call[t].before
        IN  /\ (call[t].op = "set_status" /\ call[t].at = "exit") =>
                  /\ stores = was.stores
                  /\ Others(status, n) = Others(was.status, n)
                  /\ Others(last_change, n) = Others(was.last_change, n)
            /\ (call[t].op = "remove" /\ call[t].at = "exit") =>
                  /\ Len(stores) = Len(was.stores) - (IF n \in Keys(was.stores) THEN 1 ELSE 0)
                  /\ {x \in Range(stores) : x.number # n} = {x \in Range(was.stores) : x.number # n}
                  /\ Others(status, n) = Others(was.status, n)
                  /\ Others(last_change, n) = Others(was.last_change, n)
                  /\ n \notin Keys(was.stores) => stores = was.stores
                  /\ n \notin DOMAIN was.status => status = was.status
                  /\ n \notin DOMAIN was.last_change => last_change = was.last_change

\* set_status has flipped one endpoint while the other one has a status and a
\* last-change record of its own
C31_Witness ==
    \E t \in Threads :
        /\ call[t].op = "set_status"
        /\ call[t].at = "exit"
        /\ call[t].number \in DOMAIN call[t].before.status
        /\ status[call[t].number] # call[t].before.status[call[t].number]
        /\ DOMAIN Others(last_change, call[t].number) # {}
        /\ Len(stores) = 2

----------------------------------------------------------------------------
(* Callbacks that raise *)

\* C32: once the scheduler has handled an endpoint for which it recorded a flip
\* through set_status (the verdict differs from the status it knew), notify has
\* been called for that flip, whether on_any_change returned or raised.
C32_FlipNotifiedThoughRefreshRaises ==
    (cur.done /\ cur.set /\ CallsNotify(snap_status, cur.number, cur.online)) =>
        cur.notified = 1

\* as OnPingRaises, the exception of on_ping reaching the handler of the loop
\* body: the rest of this endpoint's handling is skipped
OnPingRaises_propagates ==
    /\ pc = "on_ping"
    /\ LET res == ResultOf(futs, i)
       IN  /\ sink' = Append(sink, [number |-> ordered[i].number,
                                    ip |-> ordered[i].display_ip,
                                    online |-> res[1],
                                    latency_ms |-> res[2],
                                    success_count |-> res[3]])
           /\ cur' = [NoCur EXCEPT !.number = ordered[i].number, !.online = res[1],
                                   !.sink_raised = TRUE, !.done = TRUE]
    /\ pc' = LoopAt(i + 1)
    /\ i' = i + 1
    /\ UNCHANGED <<repoVars, stop, snap_status, ordered, futs, snap_stores, completed, after_stop, pingVars, lockVars, aliasVars, mainVars, uiVars>>

\* self.on_ping(...) raises: the inner except Exception: pass drops it and the
\* loop body goes on with prev = status.get(number)
OnPingRaises ==
    /\ pc = "on_ping"
    /\ LET res == ResultOf(futs, i)
       IN  /\ sink' = Append(sink, [number |-> ordered[i].number,
                                    ip |-> ordered[i].display_ip,
                                    online |-> res[1],
                                    latency_ms |-> res[2],
                                    success_count |-> res[3]])
           /\ cur' = [NoCur EXCEPT !.number = ordered[i].number, !.online = res[1],
                                   !.sink_raised = TRUE]
    /\ pc' = "set"
    /\ UNCHANGED <<repoVars, stop, snap_status, ordered, futs, i, snap_stores, completed, after_stop, pingVars, lockVars, aliasVars, mainVars, uiVars>>

\* one monitor over two endpoints loaded at startup, with a sink that may raise
SinkNext ==
    \/ Tick
    \/ Start
    \/ Stop
    \/ LoopTest
    \/ CycleBegin
    \/ \E j \in 1..Len(futs) : ProbeReturns(j)
    \/ \E j \in 1..Len(futs) : ProbeFails(j)
    \/ Gathered
    \/ OnPing
    \/ OnPingRaises
    \/ ApplyStatus
    \/ Refresh
    \/ Notify
    \/ Sleep

SpecSink == IoInit /\ [][SinkNext]_vars

\* C33: when on_ping raised for an endpoint, that endpoint's handling in the
\* same cycle is what it is when on_ping returns: the status is updated when the
\* verdict is new or differs, the refresh signal follows the update, and a flip
\* is stamped and notified.
C33_SinkFailureIsolated ==
    (cur.sink_raised /\ cur.done) =>
        /\ cur.set = CallsSetStatus(snap_status, cur.number, cur.online)
        /\ cur.set => (cur.stored /\ cur.refreshed = 1)
        /\ CallsNotify(snap_status, cur.number, cur.online) =>
              (cur.notified = 1 /\ cur.lc = cur.at)

\* on_ping raised for an endpoint that flipped: the flip was stored and notified
C33_Witness ==
    /\ cur.sink_raised
    /\ cur.done
    /\ cur.set
    /\ cur.known
    /\ cur.prev # cur.online
    /\ cur.notified = 1

----------------------------------------------------------------------------
(* The add and edit dialogs alone: what the Save buttons accept *)

FormNumbers == {<<>>, <<" ">>, <<"7">>, <<"9", "9">>}
FormIps == {<<>>, <<" ">>, <<" ", "1">>}
FormIds == {zfill(strip(n), 4) : n \in FormNumbers}

FormNext ==
    \/ \E n \in FormNumbers, ip \in FormIps : UiAddSave(n, ip)
    \/ \E n \in FormIds, ip \in FormIps : UiEditSave(n, ip)
    \/ \E n \in FormIds : UiRemove(n)
    \/ UiDeleteAll
    \/ UiRefresh
    \/ UiSaveCallback

SpecForm == Init /\ [][FormNext]_vars

\* C36: add and edit never upsert an endpoint whose address is blank and whose
\* id has no entry in the lookup table; when the Save button rejects such
\* input the repository is unchanged and the save routine is not called.
C36_UnresolvableRejected ==
    [][/\ \A s \in Range(stores') :
             ~(IsBlank(s.ip) /\ TableEntry(s.number) = <<>>)
       /\ (ui' # ui /\ ui'.op \in {"add_rejected", "edit_rejected"}) =>
             /\ UNCHANGED <<stores, status, last_change>>
             /\ ui'.at = "idle"
             /\ ui'.saved = ui.saved]_vars

\* an edit that blanks the address of an endpoint the table does not know has
\* been rejected, the endpoint keeping the address it had
C36_Witness ==
    /\ ui.op = "edit_rejected"
    /\ ui.at = "idle"
    /\ ui.typed = N99
    /\ \E s \in Range(stores) : s.number = N99 /\ s.ip = <<"1">>
    /\ ui.saved = stores

\* C37: the add dialog's Save button never stores an endpoint when the Store #
\* field is empty or blank: the repository is unchanged and no endpoint id
\* comes into being.
C37_BlankNumberNotStored ==
    [][(ui' # ui /\ ui'.op \in {"add", "add_rejected"} /\ IsBlank(ui'.typed)) =>
          (stores' = stores /\ Keys(stores') = Keys(stores))]_vars

----------------------------------------------------------------------------
(* app/ui.py: the table's sort state *)

Columns == {"store", "ip", "status", "last_change", "isp", "helpdesk_ticket"}

\* as sort_by_column, the reset clearing the order and keeping the column
sort_by_column_keeps_column(state, col) ==
    IF state.column = col /\ state.order = "asc"
    THEN [column |-> col, order |-> "desc"]
    ELSE IF state.column = col /\ state.order = "desc"
         THEN [column |-> col, order |-> "None"]
         ELSE [column |-> col, order |-> "asc"]

\* the sort state sort_by_column(col) leaves
sort_by_column(state, col) ==
    IF state.column = col /\ state.order = "asc"
    THEN [column |-> col, order |-> "desc"]
    ELSE IF state.column = col /\ state.order = "desc"
         THEN [column |-> "None", order |-> "None"]
         ELSE [column |-> col, order |-> "asc"]

\* a click on the header of column col; the rows are then rebuilt by refresh_ui.
\* ui.clicked records the header clicked last
SortByColumn(col) ==
    /\ ui.at = "idle"
    /\ ui' = [ui EXCEPT !.sort_state = sort_by_column(ui.sort_state, col), !.clicked = col]
    /\ UNCHANGED <<repoVars, monVars, pingVars, lockVars, aliasVars, mainVars>>

SortNext ==
    \/ \E c \in Columns : SortByColumn(c)
    \/ \E n \in UiNumbers, ip \in UiIps : UiAddSave(n, ip)
    \/ \E n \in Numbers : UiRemove(n)
    \/ UiRefresh
    \/ UiSaveCallback

SpecSort == Init /\ [][SortNext]_vars

\* C38: a click on a header that is not the sort column sets (that column, asc);
\* a click on the sort column turns asc into desc and desc into unsorted; and
\* the sort column is None exactly when the sort order is None.
C38_SortCycle ==
    [][/\ (ui'.sort_state.column = "None") <=> (ui'.sort_state.order = "None")
       /\ ui'.sort_state.order \in {"asc", "desc", "None"}
       /\ (ui'.sort_state # ui.sort_state \/ ui'.clicked # ui.clicked) =>
             LET c == ui'.clicked
             IN  /\ c \in Columns
                 /\ ui.sort_state.column # c =>
                       ui'.sort_state = [column |-> c, order |-> "asc"]
                 /\ (ui.sort_state.column = c /\ ui.sort_state.order = "asc") =>
                       ui'.sort_state = [column |-> c, order |-> "desc"]
                 /\ (ui.sort_state.column = c /\ ui.sort_state.order = "desc") =>
                       ui'.sort_state = [column |-> "None", order |-> "None"]]_vars

\* the third click on the status header has left the table unsorted, beside a
\* list of two endpoints
C38_Witness ==
    /\ ui.clicked = "status"
    /\ ui.sort_state = [column |-> "None", order |-> "None"]
    /\ Len(stores) = 2

----------------------------------------------------------------------------
(* main.py: when monitor_loop stamps a store *)

\* C35: monitor_loop writes the last-change time of a store only on a
\* transition between two known statuses: never when the store is observed for
\* the first time, be it online or offline.
C35_MainStampOnlyOnFlip ==
    [][\A r \in Runs :
          \A s \in DOMAIN last_change_dict'[r] :
              (s \notin DOMAIN last_change_dict[r]
                  \/ last_change_dict'[r][s] # last_change_dict[r][s]) =>
                  /\ s \in DOMAIN status_dict[r]
                  /\ status_dict'[r][s] # status_dict[r][s]]_vars

----------------------------------------------------------------------------
(* app/ui.py: the colour of a row, from the repository's status and the      *)
(* success count AppUI.on_ping remembers                                     *)

\* a ping process may also print a degraded result: two of four replies
RowStdouts ==
    CycleStdouts
    \cup {<<Field("Sent", PING_COUNT, ""), Field("Received", 2, ""),
            Field("Average", 12, "ms")>>}

\* a worker thread returns from ping_with_stats
RowProbeReturns(j) ==
    /\ pc = "gather"
    /\ futs[j].state = "pending"
    /\ \E out \in RowStdouts :
          futs' = [futs EXCEPT ![j].state = "done",
                               ![j].res = ping_with_stats_on(out, "", PING_QUORUM)]
    /\ completed' = Append(completed, j)
    /\ UNCHANGED <<repoVars, pc, stop, snap_status, ordered, i, sink, cur, snap_stores, after_stop, pingVars, lockVars, aliasVars, mainVars, uiVars>>

\* the last two verdicts of a store, the newest last
Seen(seen, number) == IF number \in DOMAIN seen THEN seen[number] ELSE <<>>
SeenPush(seen, number, v) ==
    LET had == Seen(seen, number)
    IN  DictSet(seen, number,
                IF had = <<>> THEN <<v>> ELSE <<had[Len(had)], v>>)

\* _run_cycle calls self.on_ping, which is AppUI.on_ping: it runs on the monitor
\* thread and writes self._last_probe_success[number] = success_count
UiOnPing ==
    /\ pc = "on_ping"
    /\ LET res == ResultOf(futs, i)
           number == ordered[i].number
       IN  /\ sink' = Append(sink, [number |-> number,
                                    ip |-> ordered[i].display_ip,
                                    online |-> res[1],
                                    latency_ms |-> res[2],
                                    success_count |-> res[3]])
           /\ cur' = [NoCur EXCEPT !.number = number, !.online = res[1]]
           /\ ui' = [ui EXCEPT !.cache = DictSet(ui.cache, number, res[3]),
                               !.seen = SeenPush(ui.seen, number, <<res[1], res[3]>>)]
    /\ pc' = "set"
    /\ UNCHANGED <<repoVars, stop, snap_status, ordered, futs, i, snap_stores, completed, after_stop, pingVars, lockVars, aliasVars, mainVars>>

\* refresh_ui: the colour tag of the row of `number`
row_color(st, cache, number) ==
    IF ~StatusGet(st, number) THEN "red"
    ELSE LET sc == IF number \in DOMAIN cache THEN cache[number] ELSE 4
         IN  IF sc = 4 THEN "green"
             ELSE IF 1 <= sc /\ sc < 4 THEN "orange"
             ELSE "green"

\* refresh_ui on the main thread, as Tk runs it when schedule_refresh asked for
\* it: one snapshot of the repository, one row per endpoint
RefreshUi ==
    /\ ui.at = "idle"
    /\ ui' = [ui EXCEPT !.rows =
                 [n \in Keys(stores) |->
                     [color |-> row_color(status, ui.cache, n),
                      of |-> Seen(ui.seen, n)]]]
    /\ UNCHANGED <<repoVars, monVars, pingVars, lockVars, aliasVars, mainVars>>

\* one endpoint loaded at startup
RowsInit ==
    /\ stores = <<StoreB>>
    /\ status = EmptyDict
    /\ last_change = EmptyDict
    /\ now = 0
    /\ MonIdle
    /\ PingIdle
    /\ LockIdle
    /\ AliasIdle
    /\ MainIdle
    /\ UiIdle

\* one monitor, its on_ping being AppUI.on_ping, beside the main thread
\* repainting the table
RowsNext ==
    \/ Start
    \/ LoopTest
    \/ CycleBegin
    \/ \E j \in 1..Len(futs) : RowProbeReturns(j)
    \/ Gathered
    \/ UiOnPing
    \/ ApplyStatus
    \/ Refresh
    \/ Notify
    \/ Sleep
    \/ RefreshUi

SpecRows == RowsInit /\ [][RowsNext]_vars

\* the colour of a verdict: red when offline, orange when online with fewer
\* than all samples successful, green when online with all of them
VerdictColor(v) ==
    IF ~v[1] THEN "red" ELSE IF v[2] < PING_COUNT THEN "orange" ELSE "green"

\* C34: a row painted by refresh_ui for a store on_ping has reported shows the
\* colour of one verdict of that store, its newest or the one before (red, the
\* colour of a store without a status, when the newest is its first): status
\* and success count are never read from two different verdicts.
C34_RowColorOfOneVerdict ==
    \A n \in DOMAIN ui.rows :
        ui.rows[n].of # <<>> =>
            ui.rows[n].color \in
                {VerdictColor(v) : v \in Range(ui.rows[n].of)}
                \cup (IF Len(ui.rows[n].of) = 1 THEN {"red"} ELSE {})

====
